---- MODULE Spec2Model ----
(***************************************************************************)
(* Model of the content transformation pipeline of mcp-publishflow         *)
(* (src/src/content_manager.py, class ContentManager).                     *)
(*                                                                         *)
(* Texts are sequences of one-character strings.  Regular expressions are  *)
(* modelled by scanners that return what Python's re module returns for    *)
(* the patterns of the source.                                             *)
(***************************************************************************)
EXTENDS Integers, Sequences, FiniteSets, TLC

VARIABLES
    san,   \* one sanitize_content experiment: input, current text, calls made
    img,   \* one process_images call: body, matches, task states, results
    vc,    \* one validate_content call: body, urls, probe loop position
    pm,    \* one process_markdown call: file, stage, outcome
    fm,     \* one parse_frontmatter / validate_frontmatter call: objects, step
    tool,   \* one tool handler invocation: tool, step, what it ended with
    tok,    \* one SecurityManager's tokens: issued, expired, blacklist, last call
    rl,     \* rate_limit: the Redis key, the clock and each caller's position
    api,    \* make_api_request: the attempts made and how the call ended
    sm     \* generate_social_media_message: the arguments and the message returned

vars == <<san, img, vc, pm, fm, tool, tok, rl, api, sm>>

\* ------------------------------------------------------------------ texts

NL == "\n"

\* str.lower() on the characters the model's texts use.
Lower(c) ==
    CASE c = "S" -> "s" [] c = "C" -> "c" [] c = "R" -> "r"
      [] c = "I" -> "i" [] c = "P" -> "p" [] c = "T" -> "t"
      [] c = "E" -> "e" [] c = "N" -> "n" [] c = "U" -> "u"
      [] c = "A" -> "a" [] c = "F" -> "f"
      [] OTHER -> c

RECURSIVE Flatten(_)
\* Concatenation of a sequence of texts.
Flatten(ts) == IF ts = <<>> THEN <<>> ELSE Head(ts) \o Flatten(Tail(ts))

\* s[i:] in Python terms, with i a 1-based position.
From(s, i) == SubSeq(s, i, Len(s))

\* pat occurs in s at position i (exact match).
At(s, pat, i) ==
    /\ i >= 1
    /\ i + Len(pat) - 1 <= Len(s)
    /\ \A k \in 1..Len(pat) : s[i + k - 1] = pat[k]

\* pat (lower case) occurs in s at position i under re.IGNORECASE.
AtCI(s, pat, i) ==
    /\ i >= 1
    /\ i + Len(pat) - 1 <= Len(s)
    /\ \A k \in 1..Len(pat) : Lower(s[i + k - 1]) = pat[k]

RECURSIVE FindCI(_, _, _)
\* First position >= i where pat occurs (IGNORECASE, DOTALL: any character
\* may be skipped); 0 if there is none.
FindCI(s, pat, i) ==
    IF i + Len(pat) - 1 > Len(s) THEN 0
    ELSE IF AtCI(s, pat, i) THEN i
    ELSE FindCI(s, pat, i + 1)

RECURSIVE FindLazy(_, _, _)
\* Where a lazy (.*?) started at i lets the following literal pat match:
\* the first position >= i where pat occurs with no newline skipped
\* (no DOTALL: '.' never matches a newline); 0 if there is none.
FindLazy(s, pat, i) ==
    IF i + Len(pat) - 1 > Len(s) THEN 0
    ELSE IF At(s, pat, i) THEN i
    ELSE IF s[i] = NL THEN 0
    ELSE FindLazy(s, pat, i + 1)

\* --------------------------------------------------------- sanitize_content

SCRIPT_OPEN == <<"<", "s", "c", "r", "i", "p", "t">>
SCRIPT_CLOSE == <<"<", "/", "s", "c", "r", "i", "p", "t", ">">>
IFRAME_OPEN == <<"<", "i", "f", "r", "a", "m", "e">>
IFRAME_CLOSE == <<"<", "/", "i", "f", "r", "a", "m", "e", ">">>

RECURSIVE RemoveBlocks(_, _, _, _)
\* re.sub(open + '.*?' + close, '', s, flags=DOTALL | IGNORECASE) from
\* position i on: one left-to-right pass, each match the shortest block
\* starting at the leftmost opening marker that has a closing marker after
\* it; the scan resumes after the removed block and never rescans.
RemoveBlocks(s, open, close, i) ==
    IF i > Len(s) THEN <<>>
    ELSE IF AtCI(s, open, i) /\ FindCI(s, close, i + Len(open)) # 0
         THEN RemoveBlocks(s, open, close,
                           FindCI(s, close, i + Len(open)) + Len(close))
         ELSE <<s[i]>> \o RemoveBlocks(s, open, close, i + 1)

RECURSIVE RunLen(_, _)
\* Length of the run of newlines starting at position i.
RunLen(s, i) == IF i <= Len(s) /\ s[i] = NL THEN 1 + RunLen(s, i + 1) ELSE 0

RECURSIVE CollapseNewlines(_, _)
\* re.sub(r'\n{3,}', '\n\n', s) from position i on.
CollapseNewlines(s, i) ==
    IF i > Len(s) THEN <<>>
    ELSE IF s[i] # NL THEN <<s[i]>> \o CollapseNewlines(s, i + 1)
    ELSE LET r == RunLen(s, i) IN
         (IF r >= 3 THEN <<NL, NL>> ELSE SubSeq(s, i, i + r - 1))
             \o CollapseNewlines(s, i + r)

sanitize_content(content) ==
    LET noScript == RemoveBlocks(content, SCRIPT_OPEN, SCRIPT_CLOSE, 1)
        noIframe == RemoveBlocks(noScript, IFRAME_OPEN, IFRAME_CLOSE, 1)
    IN  CollapseNewlines(noIframe, 1)

\* ------------------------------------------------------------ image regex

IMG_OPEN == <<"!", "[">>
IMG_MID == <<"]", "(">>
IMG_CLOSE == <<")">>

\* The value standing for "no match".
NoMatch == [start |-> -1, end |-> -1, alt |-> <<>>, path |-> <<>>]

RECURSIVE MatchImageTail(_, _, _)
\* The rest of image_pattern once '![' matched at position s, with the lazy
\* alt group tried up to each ']( ' candidate p in turn (backtracking).
\* The span is Python's half-open 0-based (start, end).
MatchImageTail(c, s, p) ==
    IF p = 0 THEN NoMatch
    ELSE LET q == FindLazy(c, IMG_CLOSE, p + 2) IN
         IF q # 0
         THEN [start |-> s - 1, end |-> q,
               alt |-> SubSeq(c, s + 2, p - 1), path |-> SubSeq(c, p + 2, q - 1)]
         ELSE MatchImageTail(c, s, FindLazy(c, IMG_MID, p + 1))

\* image_pattern = r'!\[(.*?)\]\((.*?)\)' matched at position s.
MatchImageAt(c, s) ==
    IF At(c, IMG_OPEN, s)
    THEN MatchImageTail(c, s, FindLazy(c, IMG_MID, s + 2))
    ELSE NoMatch

RECURSIVE finditer(_, _)
\* list(re.finditer(image_pattern, c)) from position pos on: leftmost
\* matches, in document order, none overlapping.
finditer(c, pos) ==
    IF pos > Len(c) THEN <<>>
    ELSE LET m == MatchImageAt(c, pos) IN
         IF m.start = -1 THEN finditer(c, pos + 1)
         ELSE <<m>> \o finditer(c, m.end + 1)

\* match.group(0)
group0(c, m) == SubSeq(c, m.start + 1, m.end)

\* ------------------------------------------------- process_images: inputs

\* At most this many image references in a body handed to process_images.
MaxImages == 2

\* The pieces the model's bodies are made of: two image references with
\* different alt texts and locators of different lengths, an image opening
\* that a line break cuts short, and plain text.
BodyTokens ==
    { <<"!", "[", "a", "]", "(", "p", ")">>,
      <<"x", "!", "[", "]", "(", "q", "q", ")", NL>>,
      <<"!", "[", "z", NL>>,
      <<"x">> }

Bodies ==
    { Flatten(ts) : ts \in UNION { [1..n -> BodyTokens] : n \in 0..MaxImages } }

\* What the environment does to one reference's task: every step works
\* ("ok"), or the named step raises the named exception, or the hosting
\* response carries no url field ("nourl").
TaskFates ==
    { [fails |-> "none", exc |-> "none"],
      [fails |-> "resolve", exc |-> "IOError"],
      [fails |-> "resolve", exc |-> "TimeoutError"],
      [fails |-> "verify", exc |-> "UnidentifiedImageError"],
      [fails |-> "upload", exc |-> "ClientError"],
      [fails |-> "nourl", exc |-> "none"] }

\* The URL the hosting destination answers for the i-th reference's upload:
\* a different text, of a different length, for each reference.
HostedUrl(i) == [j \in 1..i |-> "u"]

\* A task result that is not there yet.
Pending == <<>>

\* ------------------------------------------- _process_single_image: steps

\* The exception classes of the model; all derive from Exception.
\* aiohttp.ClientError is what aiohttp raises for an HTTP error status, a
\* connection error or an invalid URL; asyncio.TimeoutError is what an
\* expired total timeout raises, and it is no ClientError.
ExceptionClasses ==
    {"IOError", "RequestException", "ClientError", "TimeoutError",
     "UnidentifiedImageError"}

\* The except clauses of _process_single_image: (RequestException, IOError)
\* and then Exception.
CaughtNarrow(exc) == exc \in {"IOError", "RequestException"}
Caught(exc) == CaughtNarrow(exc) \/ exc \in ExceptionClasses

\* f'![{alt_text}]({new_url})'
MarkdownNoAlt(alt_text, new_url) == IMG_OPEN \o IMG_MID \o new_url \o IMG_CLOSE
Markdown(alt_text, new_url) == IMG_OPEN \o alt_text \o IMG_MID \o new_url \o IMG_CLOSE

\* asyncio.gather(*tasks): ready once every task has finished, and the
\* results are listed in the order the tasks were passed, which is the order
\* of the matches.
gather_ready_any(tpc) == \E i \in DOMAIN tpc : tpc[i] = "done"
gather_ready(tpc) == \A i \in DOMAIN tpc : tpc[i] = "done"

gather_as_completed(ret, completed) ==
    [i \in DOMAIN ret |-> IF i <= Len(completed) THEN ret[completed[i]] ELSE Pending]
gather(ret, completed) == [i \in DOMAIN ret |-> ret[i]]

\* content[:start] + new_markdown + content[end:]
Splice(content, m, new_markdown) ==
    SubSeq(content, 1, m.start) \o new_markdown \o From(content, m.end + 1)

\* --------------------------------------------------- process_images: state

ImgIdle ==
    [state |-> "idle", content |-> <<>>, upload_images |-> FALSE,
     image_upload_url |-> FALSE, matches |-> <<>>, fate |-> <<>>,
     tpc |-> <<>>, ret |-> <<>>, completed |-> <<>>, io |-> {},
     processed_images |-> <<>>, body |-> <<>>, k |-> 0, result |-> <<>>]

\* The second early return's guard alone: `if not matches`.
returns_early_ignoring_flag(upload_images, image_upload_url, matches) ==
    matches = <<>>

\* The guards of the two early returns of process_images:
\* `if not upload_images or not self.image_upload_url` and `if not matches`.
returns_early(upload_images, image_upload_url, matches) ==
    \/ ~upload_images
    \/ ~image_upload_url
    \/ matches = <<>>

\* process_images(content, upload_images) on a ContentManager whose
\* image_upload_url is set or not: the early returns, else the session with
\* one task per match.
ImgCall ==
    /\ img.state = "idle"
    /\ \E content \in Bodies, upload_images \in BOOLEAN, url \in BOOLEAN :
         LET matches == finditer(content, 1)
             n == Len(matches) IN
         IF returns_early(upload_images, url, matches)
         THEN img' = [ImgIdle EXCEPT !.state = "done", !.content = content,
                        !.upload_images = upload_images,
                        !.image_upload_url = url, !.result = content]
         ELSE \E fate \in [1..n -> TaskFates] :
                img' = [ImgIdle EXCEPT !.state = "running", !.content = content,
                          !.upload_images = upload_images,
                          !.image_upload_url = url, !.matches = matches,
                          !.fate = fate,
                          !.tpc = [i \in 1..n |-> "resolve"],
                          !.ret = [i \in 1..n |-> Pending],
                          !.body = content]
    /\ UNCHANGED <<san, vc, pm, fm, tool, tok, rl, api, sm>>

\* Task i returns value v.
Finish(i, v, io) ==
    img' = [img EXCEPT !.tpc[i] = "done", !.ret[i] = v,
              !.completed = Append(@, i), !.io = io]

\* An exception exc raised in task i inside the outer try: the handler
\* returns match.group(0); an exception no clause catches leaves the task
\* and gather re-raises it to process_images' caller.
Raise(i, exc, io) ==
    IF Caught(exc)
    THEN Finish(i, group0(img.content, img.matches[i]), io)
    ELSE img' = [img EXCEPT !.state = "raised", !.tpc[i] = "raised", !.io = io]

\* Resolve the bytes: open/read of the local path, or session.get and
\* response.read of the remote one.
ImgResolve(i) ==
    /\ img.state = "running" /\ img.tpc[i] = "resolve"
    /\ LET io == img.io \cup {[op |-> "fetch", ref |-> i]} IN
       IF ~img.image_upload_url
       THEN Finish(i, group0(img.content, img.matches[i]), img.io)
       ELSE IF img.fate[i].fails = "resolve"
       THEN Raise(i, img.fate[i].exc, io)
       ELSE img' = [img EXCEPT !.tpc[i] = "verify", !.io = io]
    /\ UNCHANGED <<san, vc, pm, fm, tool, tok, rl, api, sm>>

\* The bytes handed on without Image.open(...).verify().
verify_skipped(fate) == FALSE

\* Image.open(io.BytesIO(image_data)) or img.verify() raises.
verify_raises(fate) == fate.fails = "verify"

\* Image.open(...).verify() in its own try: any exception returns
\* match.group(0).
ImgVerify(i) ==
    /\ img.state = "running" /\ img.tpc[i] = "verify"
    /\ IF verify_raises(img.fate[i])
       THEN Finish(i, group0(img.content, img.matches[i]), img.io)
       ELSE img' = [img EXCEPT !.tpc[i] = "upload"]
    /\ UNCHANGED <<san, vc, pm, fm, tool, tok, rl, api, sm>>

\* session.post to image_upload_url, raise_for_status, response.json(),
\* result.get('url'), and the return that depends on new_url.
ImgUpload(i) ==
    /\ img.state = "running" /\ img.tpc[i] = "upload"
    /\ LET io == img.io \cup {[op |-> "upload", ref |-> i]}
           m == img.matches[i] IN
       IF img.fate[i].fails = "upload" THEN Raise(i, img.fate[i].exc, io)
       ELSE IF img.fate[i].fails = "nourl"
            THEN Finish(i, group0(img.content, m), io)
            ELSE Finish(i, Markdown(m.alt, HostedUrl(i)), io)
    /\ UNCHANGED <<san, vc, pm, fm, tool, tok, rl, api, sm>>

\* processed_images = await asyncio.gather(*tasks)
ImgGather ==
    /\ img.state = "running"
    /\ gather_ready(img.tpc)
    /\ img' = [img EXCEPT !.state = "rewrite",
                 !.processed_images = gather(img.ret, img.completed)]
    /\ UNCHANGED <<san, vc, pm, fm, tool, tok, rl, api, sm>>

\* The loop walking the pairs front to back.
in_order(n, k) == k + 1

\* reversed(...) of a list of n elements: after k elements the next one is
\* the list's element n - k (counted from 1).
reversed(n, k) == n - k

\* One iteration of the loop over zip(reversed(matches),
\* reversed(processed_images)).
ImgRewrite ==
    /\ img.state = "rewrite"
    /\ img.k < Len(img.matches)
    /\ LET j == reversed(Len(img.matches), img.k) IN
       img' = [img EXCEPT !.k = @ + 1,
                 !.body = Splice(img.body, img.matches[j], img.processed_images[j])]
    /\ UNCHANGED <<san, vc, pm, fm, tool, tok, rl, api, sm>>

\* return content
ImgReturn ==
    /\ img.state = "rewrite"
    /\ img.k = Len(img.matches)
    /\ img' = [img EXCEPT !.state = "done", !.result = img.body]
    /\ UNCHANGED <<san, vc, pm, fm, tool, tok, rl, api, sm>>

\* -------------------------------------------------------- validate_content

\* Settings.MIN_CONTENT_LENGTH when the environment does not set it.
min_content_length == 50

Whitespace == {" ", NL}

RECURSIVE LStrip(_)
LStrip(s) == IF s # <<>> /\ Head(s) \in Whitespace THEN LStrip(Tail(s)) ELSE s

RECURSIVE RStrip(_)
RStrip(s) ==
    IF s # <<>> /\ s[Len(s)] \in Whitespace
    THEN RStrip(SubSeq(s, 1, Len(s) - 1)) ELSE s

\* content.strip()
Strip(s) == RStrip(LStrip(s))

\* re.search(r'^#\s+.+$', content, re.MULTILINE): a '#' at the start of a
\* line, then one or more whitespace characters (a line break is one), then
\* at least one character that is no line break.
HasHeading(c) ==
    \E p \in 1..Len(c) :
      /\ p = 1 \/ c[p - 1] = NL
      /\ c[p] = "#"
      /\ \E k \in 1..(Len(c) - p) :
           /\ \A j \in 1..k : c[p + j] \in Whitespace
           /\ p + k + 1 <= Len(c)
           /\ c[p + k + 1] # NL

\* At most this many tokens in what MarkdownIt().parse hands back.
MaxTokens == 3

\* The link targets of the model, named after what a HEAD probe of them
\* does: it succeeds, it fails inside aiohttp (an HTTP error status from
\* raise_for_status, a connection error, an invalid URL), or it is still
\* unanswered when the timeout of 5 seconds expires.
Hrefs == {"ok", "dead", "slow"}

\* What session.head(url, ...) plus raise_for_status raises for a target.
ProbeRaises(url) ==
    CASE url = "dead" -> "ClientError"
      [] url = "slow" -> "TimeoutError"
      [] OTHER -> "none"

\* The tokens the parser can hand back, as far as the loop looks at them:
\* their type and their href attribute ("" when there is none).
Tokens ==
    { [type |-> "link_open", href |-> h] : h \in Hrefs \cup {""} }
        \cup { [type |-> "paragraph_open", href |-> ""] }

TokenLists == UNION { [1..n -> Tokens] : n \in 0..MaxTokens }

RECURSIVE CollectUrls(_)
\* The loop over tokens: the href of every link_open token that has one.
CollectUrls(tokens) ==
    IF tokens = <<>> THEN <<>>
    ELSE (IF Head(tokens).type = "link_open" /\ Head(tokens).href # ""
          THEN <<Head(tokens).href>> ELSE <<>>) \o CollectUrls(Tail(tokens))

Filler(n) == [j \in 1..n |-> "x"]

\* Bodies around the minimum length, with and without a heading line and
\* with and without whitespace that strip() removes.
VcContents ==
    { pre \o Filler(n) \o suf :
        pre \in { <<>>, <<"#", " ", "T", NL>>, <<"#", "T", NL>> },
        n \in { min_content_length - 5, min_content_length - 4, min_content_length },
        suf \in { <<>>, <<" ", NL>> } }

\* except aiohttp.ClientError: the one clause around a probe.
ProbeCaught(exc) == exc = "ClientError"

VcIdle ==
    [state |-> "idle", content |-> <<>>, tokens |-> <<>>, urls |-> <<>>,
     i |-> 0, probed |-> <<>>, result |-> FALSE, exc |-> "none"]

\* validate_content(content) up to the session: the length check, the
\* heading check, the parse and the collection of the urls.
VcCall ==
    /\ vc.state = "idle"
    /\ \E content \in VcContents, tokens \in TokenLists :
         LET called == [VcIdle EXCEPT !.content = content, !.tokens = tokens] IN
         IF Len(Strip(content)) < min_content_length \/ ~HasHeading(content)
         THEN vc' = [called EXCEPT !.state = "returned", !.result = FALSE]
         ELSE vc' = [called EXCEPT !.state = "probing",
                       !.urls = CollectUrls(tokens), !.i = 1]
    /\ UNCHANGED <<san, img, pm, fm, tool, tok, rl, api, sm>>

\* One iteration of 'for url in urls': the HEAD request and
\* raise_for_status; a ClientError returns False at once, any other
\* exception leaves validate_content.
VcProbe ==
    /\ vc.state = "probing"
    /\ vc.i <= Len(vc.urls)
    /\ LET url == vc.urls[vc.i]
           exc == ProbeRaises(url)
           probed == Append(vc.probed, vc.i) IN
       IF exc = "none"
       THEN vc' = [vc EXCEPT !.i = @ + 1, !.probed = probed]
       ELSE IF ProbeCaught(exc)
            THEN vc' = [vc EXCEPT !.state = "returned", !.result = FALSE,
                          !.probed = probed]
            ELSE vc' = [vc EXCEPT !.state = "raised", !.exc = exc,
                          !.probed = probed]
    /\ UNCHANGED <<san, img, pm, fm, tool, tok, rl, api, sm>>

\* return True, after the loop.
VcReturn ==
    /\ vc.state = "probing"
    /\ vc.i > Len(vc.urls)
    /\ vc' = [vc EXCEPT !.state = "returned", !.result = TRUE]
    /\ UNCHANGED <<san, img, pm, fm, tool, tok, rl, api, sm>>

\* -------------------------------------------------------- process_markdown

\* Whether the name os is bound in content_manager's module namespace: the
\* module's import block imports yaml, re, typing, pathlib, markdown_it,
\* logging, datetime, urllib.parse, requests, aiohttp, asyncio, io, base64,
\* PIL and config, and never os.
OsImported == FALSE

\* The files process_markdown is called on, by what the stages look at:
\* whether the path exists and how it ends, what the bytes decode to, what
\* the metadata block is, what the body is for the content check, and the
\* body's one link target ("" for none) and whether it embeds an image.
Files ==
    [exists : BOOLEAN, ext : {"md", "txt"},
     text : {"ok", "empty", "notutf8"},
     fm : {"none", "valid", "malformed", "sixTags"},
     body : {"good", "short"},
     link : Hrefs \cup {""}, image : BOOLEAN]

\* The calls of the try block of process_markdown, in the order made.
Stages ==
    <<"validate_file_path", "read_markdown_file", "parse_frontmatter",
      "validate_frontmatter", "sanitize_content", "process_images",
      "validate_content">>

\* validate_file_path: os.path.exists(file_path) is evaluated first, and
\* raises NameError when os is unbound; else the two ValueErrors.
validate_file_path(f) ==
    IF ~OsImported THEN "NameError"
    ELSE IF ~f.exists \/ f.ext # "md" THEN "ValueError"
    ELSE "none"

\* read_markdown_file: every failure ends as a ValueError.
read_markdown_file(f) == IF f.text # "ok" THEN "ValueError" ELSE "none"

\* parse_frontmatter: a yaml.YAMLError becomes ContentValidationError.
parse_frontmatter(f) ==
    IF f.fm = "malformed" THEN "ContentValidationError" ELSE "none"

\* validate_frontmatter: validate_tags raises ValueError for more than
\* max_tags tags.
validate_frontmatter(f) == IF f.fm = "sixTags" THEN "ValueError" ELSE "none"

\* What the stage raises on file f ("none": it returns).  sanitize_content
\* raises nothing; process_images keeps every failure inside its tasks;
\* validate_content lets through what its probe loop does not catch.
StageRaises(stage, f) ==
    CASE stage = "validate_file_path" -> validate_file_path(f)
      [] stage = "read_markdown_file" -> read_markdown_file(f)
      [] stage = "parse_frontmatter" -> parse_frontmatter(f)
      [] stage = "validate_frontmatter" -> validate_frontmatter(f)
      [] stage = "validate_content" ->
            IF f.body = "good" /\ f.link # "" /\ ~ProbeCaught(ProbeRaises(f.link))
            THEN ProbeRaises(f.link) ELSE "none"
      [] OTHER -> "none"

\* The I/O a stage issues on file f: process_images fetches and uploads,
\* validate_content probes.
StageIO(stage, f) ==
    CASE stage = "process_images" -> IF f.image THEN {"fetch", "upload"} ELSE {}
      [] stage = "validate_content" ->
            IF f.body = "good" /\ f.link # "" THEN {"probe"} ELSE {}
      [] OTHER -> {}

\* The argument a stage is called with, by the name of the value: the
\* path, or what the locals content and frontmatter hold at the call.
StageArg(stage, content, frontmatter) ==
    CASE stage \in {"validate_file_path", "read_markdown_file"} -> "file_path"
      [] stage = "validate_frontmatter" -> frontmatter
      [] OTHER -> content

\* What the local content holds after the stage returned.
StageContent(stage, content) ==
    CASE stage = "read_markdown_file" -> "text"
      [] stage = "parse_frontmatter" -> "body"
      [] stage = "sanitize_content" -> "sanitized"
      [] stage = "process_images" -> "processed"
      [] OTHER -> content

\* What the local frontmatter holds after the stage returned.
StageFrontmatter(stage, frontmatter) ==
    CASE stage = "parse_frontmatter" -> "parsed"
      [] stage = "validate_frontmatter" -> "validated"
      [] OTHER -> frontmatter

\* The upload_images the call passes: process_images(content) is called
\* with no second argument, which the callee reads as its default True.
StageFlag(stage) == stage = "process_images"

PmIdle ==
    [state |-> "idle", file |-> [exists |-> FALSE, ext |-> "md", text |-> "ok",
                                  fm |-> "none", body |-> "good", link |-> "",
                                  image |-> FALSE],
     upload_images |-> FALSE, stage |-> 0, calls |-> <<>>, io |-> {},
     exc |-> "none", content |-> "unbound", frontmatter |-> "unbound",
     args |-> <<>>, result |-> <<>>]

\* process_markdown(file_path, upload_images) is entered.
PmCall ==
    /\ pm.state = "idle"
    /\ \E f \in Files, upload_images \in BOOLEAN :
         pm' = [PmIdle EXCEPT !.state = "running", !.file = f,
                  !.upload_images = upload_images, !.stage = 1]
    /\ UNCHANGED <<san, img, vc, fm, tool, tok, rl, api, sm>>

\* The next call of the try block.  process_images is called only if
\* upload_images; an exception of any stage reaches 'except Exception',
\* which logs and re-raises it; after validate_content the pair is returned
\* whatever the verdict.
PmStep ==
    /\ pm.state = "running"
    /\ LET stage == Stages[pm.stage]
           skipped == stage = "process_images" /\ ~pm.upload_images
           exc == IF skipped THEN "none" ELSE StageRaises(stage, pm.file)
           ran == [pm EXCEPT
                     !.calls = IF skipped THEN @ ELSE Append(@, stage),
                     !.args = IF skipped THEN @
                              ELSE Append(@, [stage |-> stage,
                                              arg |-> StageArg(stage, pm.content,
                                                               pm.frontmatter),
                                              upload_images |-> StageFlag(stage)]),
                     !.io = IF skipped THEN @ ELSE @ \cup StageIO(stage, pm.file)]
           bound == [ran EXCEPT
                       !.content = IF skipped THEN @ ELSE StageContent(stage, @),
                       !.frontmatter =
                           IF skipped THEN @ ELSE StageFrontmatter(stage, @)] IN
       IF exc # "none"
       THEN pm' = [ran EXCEPT !.state = "raised", !.exc = exc]
       ELSE IF pm.stage = Len(Stages)
            THEN pm' = [bound EXCEPT !.state = "returned",
                          !.result = <<bound.frontmatter, bound.content>>]
            ELSE pm' = [bound EXCEPT !.stage = @ + 1]
    /\ UNCHANGED <<san, img, vc, fm, tool, tok, rl, api, sm>>

\* --------------------------------------------- sanitize_content: experiment

\* At most this many pieces in a text handed to sanitize_content.
MaxSanTokens == 5

SanTokens ==
    { <<"<", "s", "c", "r", "i", "p", "t", ">">>,
      <<"<", "/", "s", "c", "r", "i", "p", "t", ">">>,
      <<"<", "i", "f", "r", "a", "m", "e", ">">>,
      <<"<", "/", "i", "f", "r", "a", "m", "e", ">">>,
      <<"<", "S", "c", "r">>,
      <<"i", "p", "t", ">">>,
      <<NL>>,
      <<"x">> }

SanInputs ==
    { Flatten(ts) : ts \in UNION { [1..n -> SanTokens] : n \in 0..MaxSanTokens } }

SanIdle == [x |-> <<>>, prev |-> <<>>, y |-> <<>>, n |-> 0]

\* content = self.sanitize_content(content), applied to the text at hand.
SanApply ==
    /\ san.n < 2
    /\ san' = [san EXCEPT !.prev = san.y, !.y = sanitize_content(san.y), !.n = @ + 1]
    /\ UNCHANGED <<img, vc, pm, fm, tool, tok, rl, api, sm>>


\* ------------------------------------------------- frontmatter: settings

\* Settings.MAX_TITLE_LENGTH, MAX_SUBTITLE_LENGTH and MAX_TAGS as loaded
\* with no environment override.
max_title_length == 100
max_subtitle_length == 200
max_tags == 5

EN == <<"e", "n">>
FR == <<"f", "r">>

\* Settings.DEFAULT_LANGUAGE and Settings.SUPPORTED_LANGUAGES with no
\* environment override.
DefaultSettings == [default_language |-> EN, supported_languages |-> {EN}]

\* What DEFAULT_LANGUAGE and SUPPORTED_LANGUAGES can be loaded as: each
\* comes from its own environment variable, nothing relates the two.
SettingsChoices ==
    [default_language : {EN, FR}, supported_languages : {{EN}, {EN, FR}}]

\* --------------------------------------------------- frontmatter: values

\* The keys validate_frontmatter looks at.
LANGUAGE == <<"l", "a", "n", "g", "u", "a", "g", "e">>
TITLE == <<"t", "i", "t", "l", "e">>
SUBTITLE == <<"s", "u", "b", "t", "i", "t", "l", "e">>
TAGS == <<"t", "a", "g", "s">>

\* The dict {}.
EmptyMap == [k \in {} |-> <<>>]

\* The Python objects yaml.safe_load can return: a dict (keys to str or
\* list-of-str values), None, a str, a list of str.
PyDict(m) == [kind |-> "dict", map |-> m, text |-> <<>>, items |-> <<>>]
PyNone == [kind |-> "None", map |-> EmptyMap, text |-> <<>>, items |-> <<>>]
PyStr(s) == [kind |-> "str", map |-> EmptyMap, text |-> s, items |-> <<>>]
PyList(l) == [kind |-> "list", map |-> EmptyMap, text |-> <<>>, items |-> l]

\* yaml.safe_load raising a yaml.YAMLError.
YAMLError == [kind |-> "YAMLError", map |-> EmptyMap, text |-> <<>>, items |-> <<>>]

\* -------------------------------------------- frontmatter: parse_frontmatter

FM_OPEN == <<"-", "-", "-", NL>>
FM_CLOSE == <<NL, "-", "-", "-", NL>>

RECURSIVE Find(_, _, _)
\* First position >= i where pat occurs, any character skipped (re.DOTALL,
\* str.split); 0 if there is none.
Find(s, pat, i) ==
    IF i + Len(pat) - 1 > Len(s) THEN 0
    ELSE IF At(s, pat, i) THEN i
    ELSE Find(s, pat, i + 1)

NoBlock == [matched |-> FALSE, group1 |-> <<>>, group2 |-> <<>>]

\* r'---\n(.*?)\n---\n(.*)$' under re.DOTALL matched at position i: the
\* lazy group ends at the first closing line, the greedy one takes the rest.
MatchBlockAt(c, i) ==
    IF ~At(c, FM_OPEN, i) THEN NoBlock
    ELSE LET p == Find(c, FM_CLOSE, i + Len(FM_OPEN)) IN
         IF p = 0 THEN NoBlock
         ELSE [matched |-> TRUE,
               group1 |-> SubSeq(c, i + Len(FM_OPEN), p - 1),
               group2 |-> From(c, p + Len(FM_CLOSE))]

\* The pattern tried at the start of every line (what re.MULTILINE with
\* re.search would do).
frontmatter_search(c) ==
    LET starts == { i \in 1..Len(c) :
                      /\ i = 1 \/ c[i - 1] = NL
                      /\ MatchBlockAt(c, i).matched } IN
    IF starts = {} THEN NoBlock
    ELSE MatchBlockAt(c, CHOOSE i \in starts : \A j \in starts : i <= j)

\* re.match(frontmatter_pattern, content, re.DOTALL): anchored at the very
\* start of content.
frontmatter_match(c) == MatchBlockAt(c, 1)

RECURSIVE Split(_)
\* s.split('\n')
Split(s) ==
    LET p == Find(s, <<NL>>, 1) IN
    IF p = 0 THEN <<s>>
    ELSE <<SubSeq(s, 1, p - 1)>> \o Split(From(s, p + 1))

\* What a line of a YAML block is, for the lines the model's documents use:
\* blank, a document start marker, a block sequence entry '- v', a block
\* mapping entry 'k: v', one whose value opens a flow sequence and never
\* closes it, or a plain scalar.
LineKind(l) ==
    IF l = <<>> THEN "blank"
    ELSE IF l = <<"-", "-", "-">> THEN "marker"
    ELSE IF At(l, <<"-", " ">>, 1) THEN "item"
    ELSE IF Find(l, <<":", " ">>, 1) # 0
         THEN IF l[Len(l)] = "[" THEN "broken" ELSE "entry"
    ELSE "plain"

EntryKey(l) == SubSeq(l, 1, Find(l, <<":", " ">>, 1) - 1)
EntryValue(l) == From(l, Find(l, <<":", " ">>, 1) + 2)
ItemValue(l) == From(l, 3)

RECURSIVE Fold(_, _, _)
\* A multi-line plain scalar: a line break folds to a space, n blank lines
\* to n line breaks; leading and trailing blank lines are dropped.
Fold(ls, blanks, acc) ==
    IF ls = <<>> THEN acc
    ELSE IF Head(ls) = <<>> THEN Fold(Tail(ls), blanks + 1, acc)
    ELSE Fold(Tail(ls), 0,
              IF acc = <<>> THEN Head(ls)
              ELSE acc \o (IF blanks = 0 THEN <<" ">>
                           ELSE [i \in 1..blanks |-> NL]) \o Head(ls))

RECURSIVE MapOf(_)
\* The dict of a block mapping: a repeated key keeps its last value.
MapOf(ls) ==
    IF ls = <<>> THEN EmptyMap
    ELSE LET l == ls[Len(ls)] IN
         (EntryKey(l) :> EntryValue(l)) @@ MapOf(SubSeq(ls, 1, Len(ls) - 1))

\* yaml.safe_load(text): nothing but blank lines loads as None, plain lines
\* as one str (a '- ' line after a plain line belongs to the scalar), '- '
\* lines as a list, 'k: v' lines as a dict; any other mixture of lines at
\* the same indentation, an unclosed flow sequence or a second document
\* raises a YAMLError.
safe_load(text) ==
    LET ls0 == Split(text)
        ls1 == IF LineKind(Head(ls0)) = "marker" THEN Tail(ls0) ELSE ls0
        ls == SelectSeq(ls1, LAMBDA l : l # <<>>)
        kinds == { LineKind(ls[k]) : k \in DOMAIN ls } IN
    IF "broken" \in kinds \/ "marker" \in kinds THEN YAMLError
    ELSE IF ls = <<>> THEN PyNone
    ELSE IF LineKind(ls[1]) = "plain"
         THEN IF "entry" \in kinds THEN YAMLError ELSE PyStr(Fold(ls1, 0, <<>>))
    ELSE IF LineKind(ls[1]) = "item"
         THEN IF kinds = {"item"}
              THEN PyList([k \in DOMAIN ls |-> ItemValue(ls[k])])
              ELSE YAMLError
    ELSE IF kinds = {"entry"} THEN PyDict(MapOf(ls)) ELSE YAMLError

\* ---------------------------------------- frontmatter: the field validators

\* language.split('-')[0].lower()
primary_subtag(language) ==
    LET p == Find(language, <<"-">>, 1)
        head == IF p = 0 THEN language ELSE SubSeq(language, 1, p - 1) IN
    [i \in DOMAIN head |-> Lower(head[i])]

\* validate_language: what it returns.
validate_language(language, settings) ==
    IF language = <<>> THEN settings.default_language
    ELSE IF primary_subtag(language) \notin settings.supported_languages
         THEN settings.default_language
    ELSE primary_subtag(language)

\* validate_title with 'len(title) >= self.max_title_length'.
validate_title_strict(title) ==
    IF title = <<>> THEN "Title cannot be empty"
    ELSE IF Len(title) >= max_title_length THEN "Title exceeds maximum length"
    ELSE "none"

\* validate_title: the message of the ValueError it raises, "none" if it
\* returns.
validate_title(title) ==
    IF title = <<>> THEN "Title cannot be empty"
    ELSE IF Len(title) > max_title_length THEN "Title exceeds maximum length"
    ELSE "none"

\* validate_subtitle, likewise.
validate_subtitle(subtitle) ==
    IF subtitle # <<>> /\ Len(subtitle) > max_subtitle_length
    THEN "Subtitle exceeds maximum length"
    ELSE "none"

\* [a-zA-Z0-9-]
TagChars ==
    {"a", "b", "c", "d", "e", "f", "g", "h", "i", "j", "k", "l", "m",
     "n", "o", "p", "q", "r", "s", "t", "u", "v", "w", "x", "y", "z",
     "A", "B", "C", "D", "E", "F", "G", "H", "I", "J", "K", "L", "M",
     "N", "O", "P", "Q", "R", "S", "T", "U", "V", "W", "X", "Y", "Z",
     "0", "1", "2", "3", "4", "5", "6", "7", "8", "9", "-"}

RECURSIVE ClassRun(_, _)
\* How many characters from position i on the greedy [a-zA-Z0-9-]+ takes.
ClassRun(tag, i) ==
    IF i > Len(tag) \/ tag[i] \notin TagChars THEN 0
    ELSE 1 + ClassRun(tag, i + 1)

\* re.match(r'^[a-zA-Z0-9-]+$', tag): '$' matches at the end of the string
\* and also just before a newline that ends the string.
tag_match(tag) ==
    LET n == ClassRun(tag, 1) IN
    /\ n >= 1
    /\ \/ n = Len(tag)
       \/ n = Len(tag) - 1 /\ tag[Len(tag)] = NL

\* validate_tags: the message of the ValueError it raises ("none" if it
\* returns), the tag the message names, and how many tags the loop has
\* matched against the pattern.
validate_tags(tags) ==
    LET bad == { k \in DOMAIN tags : ~tag_match(tags[k]) } IN
    IF Len(tags) > max_tags
    THEN [msg |-> "Maximum tags allowed", tag |-> <<>>, matched |-> 0]
    ELSE IF bad = {}
    THEN [msg |-> "none", tag |-> <<>>, matched |-> Len(tags)]
    ELSE LET k == CHOOSE i \in bad : \A j \in bad : i <= j IN
         [msg |-> "Invalid tag format", tag |-> tags[k], matched |-> k]

\* --------------------------------------------------- frontmatter: inputs

\* At most this many lines in a document handed to parse_frontmatter.
MaxDocLines == 4

\* The lines of those documents.
DocLines ==
    { <<"-", "-", "-">>,
      <<"t", "i", "t", "l", "e", ":", " ", "T">>,
      <<"-", " ", "x">>,
      <<"x">>,
      <<"k", ":", " ", "[">>,
      <<>> }

RECURSIVE Join(_)
\* '\n'.join(ls)
Join(ls) ==
    IF ls = <<>> THEN <<>>
    ELSE IF Len(ls) = 1 THEN Head(ls)
    ELSE Head(ls) \o <<NL>> \o Join(Tail(ls))

\* The documents: up to MaxDocLines lines, the last one ended by a newline
\* or not.
Documents ==
    { Join(ls) \o end :
        ls \in UNION { [1..n -> DocLines] : n \in 0..MaxDocLines },
        end \in {<<>>, <<NL>>} }

\* A text of n characters c.
Rep(c, n) == [i \in 1..n |-> c]

Titles ==
    { Rep("t", n) : n \in {0, 1, max_title_length, max_title_length + 1} }

Subtitles ==
    { Rep("s", n) : n \in {0, max_subtitle_length, max_subtitle_length + 1} }

\* A tag the pattern accepts, and tags with one character it should not:
\* a '!', a newline at the end, and the empty tag.
GoodTag == <<"a", "-", "1">>
OddTags == { <<"a", "!">>, <<"a", NL>>, <<>> }

\* At most this many tags of a list are odd ones.
MaxOddTags == 2

TagLists ==
    { l \in UNION { [1..n -> {GoodTag} \cup OddTags] : n \in 0..(max_tags + 1) } :
        Cardinality({ k \in DOMAIN l : l[k] # GoodTag }) <= MaxOddTags }

\* The values of a language key: empty, supported, region subtags in both
\* letter cases, unsupported.
LanguageValues ==
    { <<>>, EN, <<"E", "N", "-", "U", "S">>, <<"f", "r", "-", "C", "A">>,
      <<"d", "e">> }

\* A key that is absent, or present with a value of V.
Opt(V) == {[has |-> FALSE, v |-> <<>>]} \cup {[has |-> TRUE, v |-> x] : x \in V}

Entry(key, o) == IF o.has THEN key :> o.v ELSE EmptyMap

\* The calls of validate_frontmatter made directly: every combination of
\* title, subtitle and tags under the default settings, and every language
\* value under every settings choice.
ValidateCalls ==
    { [frontmatter |-> Entry(TITLE, t) @@ Entry(SUBTITLE, s) @@ Entry(TAGS, g),
       settings |-> DefaultSettings] :
        t \in Opt(Titles), s \in Opt(Subtitles), g \in Opt(TagLists) }
    \cup
    { [frontmatter |-> Entry(LANGUAGE, l) @@ Entry(TITLE, t),
       settings |-> st] :
        l \in Opt(LanguageValues), t \in Opt({Rep("t", max_title_length)}),
        st \in SettingsChoices }

\* ---------------------------------------------------- frontmatter: state

\* The objects of one call: heap holds what each object is, frontmatter and
\* validated are references into it (0: unbound), before is what the
\* argument was when validate_frontmatter was entered, rules lists the
\* checks made so far.
FmIdle ==
    [state |-> "idle", op |-> "none", content |-> <<>>, parsed |-> PyNone,
     body |-> <<>>, settings |-> DefaultSettings, heap |-> <<>>,
     frontmatter |-> 0, validated |-> 0, before |-> PyNone, pc |-> "none",
     rules |-> <<>>, matched |-> 0, exc |-> "none", msg |-> "none",
     tag |-> <<>>, result |-> 0]

\* parse_frontmatter(content).
FmParse ==
    /\ fm.state = "idle"
    /\ \E content \in Documents :
         LET match == frontmatter_match(content) IN
         IF ~match.matched
         THEN fm' = [FmIdle EXCEPT !.state = "parsed", !.op = "parse",
                       !.content = content, !.parsed = PyDict(EmptyMap),
                       !.body = content]
         ELSE LET frontmatter == safe_load(match.group1) IN
              IF frontmatter = YAMLError
              THEN fm' = [FmIdle EXCEPT !.state = "raised", !.op = "parse",
                            !.content = content,
                            !.exc = "ContentValidationError"]
              ELSE fm' = [FmIdle EXCEPT !.state = "parsed", !.op = "parse",
                            !.content = content, !.parsed = frontmatter,
                            !.body = match.group2]
    /\ UNCHANGED <<san, img, vc, pm, tool, tok, rl, api, sm>>

\* 'validated = frontmatter': a second name for the same object.
copy_alias(heap, ref) == [heap |-> heap, ref |-> ref]

\* frontmatter.copy(): a new object with the same keys and values.
copy(heap, ref) == [heap |-> Append(heap, heap[ref]), ref |-> Len(heap) + 1]

\* validate_frontmatter(frontmatter) is entered with object v as argument:
\* None and str have no copy method, dict and list are copied.
Enter(f, op, v, settings) ==
    LET c == copy(<<v>>, 1) IN
    IF v.kind \in {"None", "str"}
    THEN [f EXCEPT !.state = "raised", !.op = op, !.settings = settings,
             !.heap = <<v>>, !.frontmatter = 1, !.before = v,
             !.exc = "AttributeError"]
    ELSE [f EXCEPT !.state = "validating", !.op = op, !.settings = settings,
             !.heap = c.heap, !.frontmatter = 1, !.validated = c.ref,
             !.before = v, !.pc = "language"]

\* validate_frontmatter called on a mapping of the caller.
FmValidateCall ==
    /\ fm.state = "idle"
    /\ \E call \in ValidateCalls :
         fm' = Enter(FmIdle, "validate", PyDict(call.frontmatter), call.settings)
    /\ UNCHANGED <<san, img, vc, pm, tool, tok, rl, api, sm>>

\* validate_frontmatter called on what parse_frontmatter returned, as
\* process_markdown does.
FmValidateParsed ==
    /\ fm.state = "parsed"
    /\ fm' = Enter(fm, "pipeline", fm.parsed, DefaultSettings)
    /\ UNCHANGED <<san, img, vc, pm, tool, tok, rl, api, sm>>

Validated == fm.heap[fm.validated]

FmRaise(exc, msg, rule) ==
    fm' = [fm EXCEPT !.state = "raised", !.pc = "none", !.exc = exc,
             !.msg = msg, !.rules = Append(@, rule)]

\* The language key is normalised or set; a list takes neither a str index
\* nor a str key.
FmLanguage ==
    /\ fm.state = "validating" /\ fm.pc = "language"
    /\ IF Validated.kind = "list"
       THEN FmRaise("TypeError", "none", "language")
       ELSE LET language ==
                  IF LANGUAGE \in DOMAIN Validated.map
                  THEN validate_language(Validated.map[LANGUAGE], fm.settings)
                  ELSE fm.settings.default_language IN
            fm' = [fm EXCEPT !.heap[fm.validated].map = (LANGUAGE :> language) @@ @,
                     !.pc = "title", !.rules = Append(@, "language")]
    /\ UNCHANGED <<san, img, vc, pm, tool, tok, rl, api, sm>>

\* 'if 'title' in validated: self.validate_title(validated['title'])'
FmTitle ==
    /\ fm.state = "validating" /\ fm.pc = "title"
    /\ IF TITLE \notin DOMAIN Validated.map
       THEN fm' = [fm EXCEPT !.pc = "subtitle"]
       ELSE LET msg == validate_title(Validated.map[TITLE]) IN
            IF msg # "none"
            THEN FmRaise("ValueError", msg, "title")
            ELSE fm' = [fm EXCEPT !.pc = "subtitle", !.rules = Append(@, "title")]
    /\ UNCHANGED <<san, img, vc, pm, tool, tok, rl, api, sm>>

\* 'if 'subtitle' in validated: self.validate_subtitle(...)'
FmSubtitle ==
    /\ fm.state = "validating" /\ fm.pc = "subtitle"
    /\ IF SUBTITLE \notin DOMAIN Validated.map
       THEN fm' = [fm EXCEPT !.pc = "tags"]
       ELSE LET msg == validate_subtitle(Validated.map[SUBTITLE]) IN
            IF msg # "none"
            THEN FmRaise("ValueError", msg, "subtitle")
            ELSE fm' = [fm EXCEPT !.pc = "tags", !.rules = Append(@, "subtitle")]
    /\ UNCHANGED <<san, img, vc, pm, tool, tok, rl, api, sm>>

\* 'if 'tags' in validated: self.validate_tags(validated['tags'])'
FmTags ==
    /\ fm.state = "validating" /\ fm.pc = "tags"
    /\ IF TAGS \notin DOMAIN Validated.map
       THEN fm' = [fm EXCEPT !.pc = "return"]
       ELSE LET r == validate_tags(Validated.map[TAGS]) IN
            IF r.msg # "none"
            THEN fm' = [fm EXCEPT !.state = "raised", !.pc = "none",
                          !.exc = "ValueError", !.msg = r.msg, !.tag = r.tag,
                          !.matched = r.matched, !.rules = Append(@, "tags")]
            ELSE fm' = [fm EXCEPT !.pc = "return", !.matched = r.matched,
                          !.rules = Append(@, "tags")]
    /\ UNCHANGED <<san, img, vc, pm, tool, tok, rl, api, sm>>

\* 'return validated'
FmReturn ==
    /\ fm.state = "validating" /\ fm.pc = "return"
    /\ fm' = [fm EXCEPT !.state = "returned", !.pc = "none",
                !.result = fm.validated]
    /\ UNCHANGED <<san, img, vc, pm, tool, tok, rl, api, sm>>

\* ---------------------------------------------------------- tool handlers

\* The handlers registered with @mcp.tool that call process_markdown or a
\* publisher.
ToolNames ==
    {"read_codebase_file", "publish_to_medium", "publish_to_substack",
     "publish_substack_post", "publish_tweet", "publish_bluesky_post",
     "find_subreddits", "publish_reddit_post"}

\* medium_tools.py and substack_tools.py call time.time() and never import
\* time.
TimeImported == FALSE

\* The callers of the coroutine function process_markdown call it without
\* await.
Awaited == FALSE

\* The handlers whose first statement is 'start_time = time.time()', before
\* their try block.
ReadsClock(t) ==
    t \in {"publish_to_medium", "publish_to_substack", "publish_substack_post"}

\* The handlers whose try block starts with
\* 'frontmatter, content = content_manager.process_markdown(...)'.
UnpacksProcessMarkdown(t) == t # "publish_substack_post"

\* The methods MonitoringManager defines.
MonitoringMethods ==
    {"start_metrics_server", "update_system_metrics", "record_request",
     "record_error", "record_publish_latency", "get_health_status",
     "save_metrics", "start_metrics_collection"}

\* The monitoring_manager methods a handler's try block calls after the
\* publisher returned.
SuccessMonitors(t) ==
    CASE t \in {"publish_to_medium", "publish_to_substack"} ->
            {"record_publish_latency"}
      [] t = "publish_substack_post" ->
            {"record_publish_latency", "increment_success_count"}
      [] t = "read_codebase_file" -> {}
      [] OTHER -> {"increment_success_count"}

\* class hierarchy of src/src/exceptions.py
IsA(exc, class) ==
    \/ class = "Exception"
    \/ exc = class
    \/ class = "PublishingError" /\ exc \in {"ContentValidationError", "APIError"}

Clause(catches, monitors, ends, prefix) ==
    [catches |-> catches, monitors |-> monitors, ends |-> ends, prefix |-> prefix]

\* The except clauses of each handler, in order: the classes caught, the
\* monitoring_manager methods called, whether the clause returns its message
\* or raises PublishingError with it, and the message's prefix.
Clauses(t) ==
    CASE t = "read_codebase_file" ->
           << Clause({"ContentValidationError"}, {"record_error"}, "return",
                     "Content validation error reading file"),
              Clause({"PublishingError"}, {"record_error"}, "return",
                     "Error reading file"),
              Clause({"Exception"}, {"record_error"}, "return",
                     "An unexpected error occurred while reading file") >>
      [] t = "publish_to_medium" ->
           << Clause({"PublishingError", "APIError"}, {"record_error"}, "return",
                     "Error publishing to Medium"),
              Clause({"Exception"}, {"record_error"}, "return",
                     "An unexpected error occurred while publishing to Medium") >>
      [] t = "publish_to_substack" ->
           << Clause({"ContentValidationError"}, {"record_error"}, "return",
                     "Content validation error preparing for Substack"),
              Clause({"PublishingError"}, {"record_error"}, "return",
                     "Error preparing content for Substack"),
              Clause({"Exception"}, {"record_error"}, "return",
                     "An unexpected error occurred while preparing for Substack") >>
      [] t = "publish_substack_post" ->
           << Clause({"ContentValidationError", "PublishingError"},
                     {"record_error", "increment_failure_count"}, "raise",
                     "Failed to publish to Substack automatically"),
              Clause({"Exception"},
                     {"record_error", "increment_failure_count"}, "raise",
                     "An unexpected error occurred while publishing to Substack automatically") >>
      [] t = "publish_tweet" ->
           << Clause({"Exception"}, {"increment_failure_count"}, "raise",
                     "Failed to publish tweet") >>
      [] t = "publish_bluesky_post" ->
           << Clause({"Exception"}, {"increment_failure_count"}, "raise",
                     "Failed to publish Bluesky post") >>
      [] t = "find_subreddits" ->
           << Clause({"Exception"}, {"increment_failure_count"}, "raise",
                     "Failed to find subreddits") >>
      [] OTHER ->
           << Clause({"Exception"}, {"increment_failure_count"}, "raise",
                     "Failed to publish Reddit post") >>

\* What a publisher call ends with: it returns, or raises.
PublisherFates == {"none", "PublishingError", "APIError", "RuntimeError"}

\* The files the handlers are invoked on.
ToolFiles == { f \in Files : f.body = "good" /\ f.link = "" /\ ~f.image }

RECURSIVE FirstRaise(_, _)
\* What an awaited process_markdown(f) raises: the exception of the first
\* stage from stage n on that raises.
FirstRaise(f, n) ==
    IF n > Len(Stages) THEN "none"
    ELSE IF StageRaises(Stages[n], f) # "none" THEN StageRaises(Stages[n], f)
    ELSE FirstRaise(f, n + 1)

\* What the try block of handler t raises ("none": it reaches its return).
\* Unpacking the coroutine object an un-awaited process_markdown returns
\* raises TypeError; a method MonitoringManager lacks raises AttributeError.
BodyRaises(t, f, fate) ==
    LET rest == IF fate # "none" THEN fate
                ELSE IF SuccessMonitors(t) \subseteq MonitoringMethods THEN "none"
                ELSE "AttributeError" IN
    IF ~UnpacksProcessMarkdown(t) THEN rest
    ELSE IF ~Awaited THEN "TypeError"
    ELSE IF FirstRaise(f, 1) # "none" THEN FirstRaise(f, 1)
    ELSE rest

ToolIdle ==
    [state |-> "idle", name |-> "none", file |-> PmIdle.file, fate |-> "none",
     pc |-> "none", exc |-> "none", escaped |-> "none", message |-> "none"]

\* A client invokes tool t.
ToolCall ==
    /\ tool.state = "idle"
    /\ \E t \in ToolNames, f \in ToolFiles, fate \in PublisherFates :
         tool' = [ToolIdle EXCEPT !.state = "running", !.name = t, !.file = f,
                    !.fate = fate, !.pc = "prologue"]
    /\ UNCHANGED <<san, img, vc, pm, fm, tok, rl, api, sm>>

\* The statements before the try block: time.time() raises NameError where
\* time is unbound, and nothing catches it.
ToolPrologue ==
    /\ tool.state = "running" /\ tool.pc = "prologue"
    /\ IF ReadsClock(tool.name) /\ ~TimeImported
       THEN tool' = [tool EXCEPT !.state = "escaped", !.pc = "none",
                       !.escaped = "NameError"]
       ELSE tool' = [tool EXCEPT !.pc = "try"]
    /\ UNCHANGED <<san, img, vc, pm, fm, tok, rl, api, sm>>

\* The try block.
ToolTry ==
    /\ tool.state = "running" /\ tool.pc = "try"
    /\ LET exc == BodyRaises(tool.name, tool.file, tool.fate) IN
       IF exc = "none"
       THEN tool' = [tool EXCEPT !.state = "returned", !.pc = "none",
                       !.message = "result"]
       ELSE tool' = [tool EXCEPT !.pc = "except", !.exc = exc]
    /\ UNCHANGED <<san, img, vc, pm, fm, tok, rl, api, sm>>

\* The first except clause that matches: its monitoring calls, then its
\* return or its raise.
ToolExcept ==
    /\ tool.state = "running" /\ tool.pc = "except"
    /\ LET cs == Clauses(tool.name)
           k == CHOOSE i \in DOMAIN cs :
                  /\ \E c \in cs[i].catches : IsA(tool.exc, c)
                  /\ \A j \in 1..(i - 1) :
                       ~\E c \in cs[j].catches : IsA(tool.exc, c) IN
       IF ~(cs[k].monitors \subseteq MonitoringMethods)
       THEN tool' = [tool EXCEPT !.state = "escaped", !.pc = "none",
                       !.escaped = "AttributeError"]
       ELSE IF cs[k].ends = "raise"
       THEN tool' = [tool EXCEPT !.state = "escaped", !.pc = "none",
                       !.escaped = "PublishingError",
                       !.message = cs[k].prefix]
       ELSE tool' = [tool EXCEPT !.state = "returned", !.pc = "none",
                       !.message = cs[k].prefix]
    /\ UNCHANGED <<san, img, vc, pm, fm, tok, rl, api, sm>>

\* ------------------------------------------------- SecurityManager: tokens

\* The strings handed to verify_token and revoke_token: tokens that
\* generate_token can return, and a string that is no token of this key.
JwtTokens == {"t1", "t2"}
TokenStrings == JwtTokens \cup {"invalid.token.string"}

\* verify_token with the blacklist looked at only after jwt.decode.
verify_token_decode_first(token, s) ==
    IF token \notin s.issued THEN "401 Invalid token"
    ELSE IF token \in s.expired THEN "401 Token has expired"
    ELSE IF token \in s.token_blacklist THEN "401 Token has been revoked"
    ELSE "payload"

\* verify_token: the HTTPException it raises, or "payload" if it returns.
\* The HTTPException of the blacklist check is raised inside the try and is
\* neither of the two jwt exceptions caught; jwt.decode rejects a string not
\* signed with the key before it looks at 'exp'.
verify_token(token, s) ==
    IF token \in s.token_blacklist THEN "401 Token has been revoked"
    ELSE IF token \notin s.issued THEN "401 Invalid token"
    ELSE IF token \in s.expired THEN "401 Token has expired"
    ELSE "payload"

\* SecurityManager(secret_key): nothing issued, empty blacklist.  revoked
\* is the set of tokens revoke_token was ever called on.
TokIdle ==
    [issued |-> {}, expired |-> {}, token_blacklist |-> {}, revoked |-> {},
     last |-> [op |-> "none", token |-> "none", result |-> "none"]]

\* generate_token returns token t.
TokGenerate(t) ==
    /\ t \notin tok.expired
    /\ tok' = [tok EXCEPT !.issued = @ \cup {t},
                 !.last = [op |-> "generate", token |-> t, result |-> t]]
    /\ UNCHANGED <<san, img, vc, pm, fm, tool, rl, api, sm>>

\* Time passes t's 'exp'.
TokExpire(t) ==
    /\ t \in tok.issued /\ t \notin tok.expired
    /\ tok' = [tok EXCEPT !.expired = @ \cup {t},
                 !.last = [op |-> "expire", token |-> t, result |-> "none"]]
    /\ UNCHANGED <<san, img, vc, pm, fm, tool, rl, api, sm>>

\* verify_token(t)
TokVerify(t) ==
    /\ tok' = [tok EXCEPT
                 !.last = [op |-> "verify", token |-> t,
                           result |-> verify_token(t, tok)]]
    /\ UNCHANGED <<san, img, vc, pm, fm, tool, rl, api, sm>>

\* revoke_token(t)
TokRevoke(t) ==
    /\ tok' = [tok EXCEPT !.token_blacklist = @ \cup {t},
                 !.revoked = @ \cup {t},
                 !.last = [op |-> "revoke", token |-> t, result |-> "none"]]
    /\ UNCHANGED <<san, img, vc, pm, fm, tool, rl, api, sm>>

\* --------------------------------------------- SecurityManager: rate_limit

\* Seconds on the clock and rate_limit calls made in one behaviour.
MaxClock == 3
MaxCalls == 3

\* Concurrent callers of rate_limit on one key, and the (limit, window) a
\* decorated function fixes for it.
Callers == {1, 2}
Limits == {1, 2}
Windows == {1, 2}

\* Redis commands on the key's sorted set, a set of [member, score].
zremrangebyscore(zset, min, max) ==
    {e \in zset : ~(min <= e.score /\ e.score <= max)}

zcard(zset) == Cardinality(zset)

zadd(zset, member, score) ==
    {e \in zset : e.member # member} \cup {[member |-> member, score |-> score]}

\* 'if count > limit', one request too late.
limit_reached_late(count, limit) == count > limit

\* 'if count >= limit'
limit_reached(count, limit) == count >= limit

CallerIdle ==
    [pc |-> "idle", current |-> 0, count |-> 0, ops |-> <<>>,
     result |-> "none"]

\* SecurityManager(secret_key, redis_url): self.redis is set or None; the
\* key does not exist yet.  ttl = 0 says the key has no expiry.  admitted
\* counts, per second, the calls that began in that second and returned
\* False before it ended.
RlIdle ==
    [redis |-> FALSE, limit |-> 1, window |-> 1, clock |-> 0,
     zset |-> {}, ttl |-> 0, calls |-> 0,
     admitted |-> [t \in 0..MaxClock |-> 0],
     caller |-> [p \in Callers |-> CallerIdle]]

\* Lines 46-51: without Redis return False at once; otherwise read the clock.
RlCall(p) ==
    /\ rl.caller[p].pc \in {"idle", "done"}
    /\ rl.calls < MaxCalls
    /\ IF ~rl.redis
       THEN rl' = [rl EXCEPT !.calls = @ + 1,
                     !.caller[p] = [CallerIdle EXCEPT !.pc = "done",
                                       !.current = rl.clock,
                                       !.result = "False"]]
       ELSE rl' = [rl EXCEPT !.calls = @ + 1,
                     !.caller[p] = [CallerIdle EXCEPT
                                       !.pc = "zremrangebyscore",
                                       !.current = rl.clock]]
    /\ UNCHANGED <<san, img, vc, pm, fm, tool, tok, api, sm>>

\* Lines 52-54: window_start = current - window; remove scores 0..window_start.
\* A sorted set left empty is a key that no longer exists.
RlClean(p) ==
    /\ rl.caller[p].pc = "zremrangebyscore"
    /\ LET window_start == rl.caller[p].current - rl.window
           left == zremrangebyscore(rl.zset, 0, window_start) IN
       rl' = [rl EXCEPT !.zset = left,
                !.ttl = IF left = {} THEN 0 ELSE @,
                !.caller[p].pc = "zcard",
                !.caller[p].ops = Append(@,
                    [op |-> "zremrangebyscore", min |-> 0,
                     max |-> window_start])]
    /\ UNCHANGED <<san, img, vc, pm, fm, tool, tok, api, sm>>

\* Lines 56-59: count the entries; at the limit return True.
RlCount(p) ==
    /\ rl.caller[p].pc = "zcard"
    /\ LET count == zcard(rl.zset)
           ops == Append(rl.caller[p].ops, [op |-> "zcard"]) IN
       rl' = IF limit_reached(count, rl.limit)
             THEN [rl EXCEPT !.caller[p].pc = "done",
                      !.caller[p].count = count,
                      !.caller[p].ops = ops,
                      !.caller[p].result = "True"]
             ELSE [rl EXCEPT !.caller[p].pc = "zadd",
                      !.caller[p].count = count,
                      !.caller[p].ops = ops]
    /\ UNCHANGED <<san, img, vc, pm, fm, tool, tok, api, sm>>

\* Line 62: zadd(key, {str(current): current})
RlAdd(p) ==
    /\ rl.caller[p].pc = "zadd"
    /\ LET current == rl.caller[p].current IN
       rl' = [rl EXCEPT !.zset = zadd(@, ToString(current), current),
                !.caller[p].pc = "expire",
                !.caller[p].ops = Append(@,
                    [op |-> "zadd", member |-> ToString(current),
                     score |-> current])]
    /\ UNCHANGED <<san, img, vc, pm, fm, tool, tok, api, sm>>

\* Lines 63-64: expire(key, window); return False.
RlExpire(p) ==
    /\ rl.caller[p].pc = "expire"
    /\ rl' = [rl EXCEPT !.ttl = IF rl.zset = {} THEN 0 ELSE rl.window,
                !.admitted[rl.caller[p].current] =
                    IF rl.clock = rl.caller[p].current THEN @ + 1 ELSE @,
                !.caller[p].pc = "done",
                !.caller[p].ops = Append(@,
                    [op |-> "expire", seconds |-> rl.window]),
                !.caller[p].result = "False"]
    /\ UNCHANGED <<san, img, vc, pm, fm, tool, tok, api, sm>>

\* A second passes; a key whose expiry runs out is deleted.
RlTick ==
    /\ rl.clock < MaxClock
    /\ rl' = [rl EXCEPT !.clock = @ + 1,
                !.ttl = IF @ > 0 THEN @ - 1 ELSE 0,
                !.zset = IF rl.ttl = 1 THEN {} ELSE @]
    /\ UNCHANGED <<san, img, vc, pm, fm, tool, tok, api, sm>>

\* ------------------------------------------ MediumPublisher: make_api_request

MAX_RETRIES == 3

\* The largest 'retries' argument tried.
MaxRetriesArg == 4

\* What one requests.post can do: raise a RequestException (a transport
\* error) or return a response with a status code.
Statuses == {200, 404, 429, 503}
PostFates ==
    {[raises |-> TRUE, status |-> 0]}
        \cup {[raises |-> FALSE, status |-> s] : s \in Statuses}

\* response.raise_for_status() raises HTTPError for 4xx and 5xx.
raise_for_status(status) == 400 <= status /\ status < 600

\* 'if attempt < retries', which lets the last attempt 'continue' too.
attempts_remain_off_by_one(attempt, retries) == attempt < retries

\* 'if attempt < retries - 1'
attempts_remain(attempt, retries) == attempt < retries - 1

ApiIdle ==
    [pc |-> "idle", retries |-> MAX_RETRIES, attempt |-> 0, posts |-> <<>>,
     sleeps |-> 0, result |-> <<>>, exc |-> "none"]

\* make_api_request(url, headers, payload, retries), retries >= 1
ApiCall(retries) ==
    /\ api.pc \in {"idle", "returned", "raised"}
    /\ api' = [ApiIdle EXCEPT !.pc = "post", !.retries = retries]
    /\ UNCHANGED <<san, img, vc, pm, fm, tool, tok, rl, sm>>

\* One pass of the loop body up to 'return', 'raise' or time.sleep.
ApiPost(fate) ==
    /\ api.pc = "post"
    /\ LET more == attempts_remain(api.attempt, api.retries)
           posted == [api EXCEPT !.posts = Append(@, fate)]
           handler == IF more THEN [posted EXCEPT !.pc = "sleep"]
                      ELSE [posted EXCEPT !.pc = "raised",
                               !.exc = "PublishingError"] IN
       api' = IF fate.raises THEN handler
              ELSE IF fate.status = 429 /\ more
                   THEN [posted EXCEPT !.pc = "sleep"]
              ELSE IF raise_for_status(fate.status) THEN handler
              ELSE [posted EXCEPT !.pc = "returned", !.result = <<fate>>]
    /\ UNCHANGED <<san, img, vc, pm, fm, tool, tok, rl, sm>>

\* time.sleep(RETRY_DELAY); continue.  A loop that runs out of attempts
\* falls off the end of the function, which returns None.
ApiSleep ==
    /\ api.pc = "sleep"
    /\ api' = [api EXCEPT !.sleeps = @ + 1, !.attempt = @ + 1,
                 !.pc = IF api.attempt + 1 < api.retries THEN "post"
                        ELSE "returned"]
    /\ UNCHANGED <<san, img, vc, pm, fm, tool, tok, rl, sm>>

\* ------------------------------------------ generate_social_media_message

MEDIUM_LABEL ==
    <<"R", "e", "a", "d", " ", "i", "t", " ", "o", "n", " ", "M", "e", "d",
      "i", "u", "m", ":", " ">>

SUBSTACK_LABEL ==
    <<"R", "e", "a", "d", " ", "i", "t", " ", "o", "n", " ", "S", "u", "b",
      "s", "t", "a", "c", "k", ":", " ">>

DEFAULT_TITLE ==
    <<"N", "e", "w", " ", "A", "r", "t", "i", "c", "l", "e">>

ELLIPSIS == <<".", ".", ".">>

\* Longest summary or title, longest link and largest max_length tried.
MaxContentLen == 6
MaxLinkLen == 2
MaxLengthArg == 60

\* 'abcdef...' cut to n characters.
Text(n) ==
    SubSeq(<<"a", "b", "c", "d", "e", "f", "g", "h", "i", "j", "k", "l">>,
           1, n)

\* The summaries and titles a frontmatter may carry, or lack.
SmContents == Opt({Text(n) : n \in {MaxContentLen - 1, MaxContentLen}})

SmTagLists == {<<>>, << <<"a", "-", "b">> >>, << <<"a", "i">>, <<"m", "-", "l">> >>}

SmLinks == {[j \in 1..n |-> "u"] : n \in 1..MaxLinkLen}

\* max_length: None (0 stands for it: 'if max_length' treats both alike) or
\* a positive integer.
SmMaxLengths == 0..MaxLengthArg

RECURSIVE replace_hyphens(_)
\* tag.replace('-', '')
replace_hyphens(tag) ==
    IF tag = <<>> THEN <<>>
    ELSE (IF Head(tag) = "-" THEN <<>> ELSE <<Head(tag)>>)
             \o replace_hyphens(Tail(tag))

RECURSIVE join_hashtags(_)
\* " ".join([f"#{tag.replace('-', '')}" for tag in tags])
join_hashtags(tags) ==
    IF tags = <<>> THEN <<>>
    ELSE <<"#">> \o replace_hyphens(Head(tags))
           \o (IF Len(tags) = 1 THEN <<>>
               ELSE <<" ">> \o join_hashtags(Tail(tags)))

\* f"Read it on Medium: {medium_link}\nRead it on Substack: {substack_link}"
link_lines(medium_link, substack_link) ==
    MEDIUM_LABEL \o medium_link \o <<NL>> \o SUBSTACK_LABEL \o substack_link

\* s[:n] for n >= 0
Prefix(s, n) == SubSeq(s, 1, IF n < Len(s) THEN n ELSE Len(s))

\* generate_social_media_message(frontmatter, medium_link, substack_link,
\* max_length), frontmatter given by its summary, title and tags.
generate_social_media_message(summary, title, tags, medium_link, substack_link, max_length) ==
    LET the_title == IF title.has THEN title.v ELSE DEFAULT_TITLE
        message_content == IF summary.has THEN summary.v ELSE the_title
        hashtags == join_hashtags(tags)
        links == <<NL, NL>> \o link_lines(medium_link, substack_link)
        message == message_content
                     \o (IF tags # <<>> THEN <<" ">> \o hashtags ELSE <<>>)
                     \o links
        links_length == Len(links)
        available_length == max_length - links_length - 3
        truncated_content ==
            Prefix(message_content, available_length) \o ELLIPSIS IN
    IF max_length # 0 /\ Len(message) > max_length
    THEN IF available_length > 0
         THEN (IF tags = <<>> THEN truncated_content
               ELSE IF Len(truncated_content) + Len(<<" ">> \o hashtags)
                          <= max_length - links_length
                    THEN truncated_content \o <<" ">> \o hashtags
                    ELSE Prefix(message_content,
                                max_length - links_length - 3) \o ELLIPSIS)
              \o links
         ELSE link_lines(medium_link, substack_link)
    ELSE message

SmIdle ==
    [state |-> "idle", summary |-> [has |-> FALSE, v |-> <<>>],
     title |-> [has |-> FALSE, v |-> <<>>], tags |-> <<>>,
     medium_link |-> <<>>, substack_link |-> <<>>, max_length |-> 0,
     message |-> <<>>]

\* One call with its arguments.
SmCall(summary, title, tags, medium_link, substack_link, max_length) ==
    /\ sm.state = "idle"
    /\ sm' = [state |-> "returned", summary |-> summary, title |-> title,
              tags |-> tags, medium_link |-> medium_link,
              substack_link |-> substack_link, max_length |-> max_length,
              message |-> generate_social_media_message(
                              summary, title, tags, medium_link,
                              substack_link, max_length)]
    /\ UNCHANGED <<san, img, vc, pm, fm, tool, tok, rl, api>>

\* --------------------------------------------------------- specifications

InitSanitize ==
    /\ san \in { [x |-> t, prev |-> t, y |-> t, n |-> 0] : t \in SanInputs }
    /\ img = ImgIdle /\ vc = VcIdle /\ pm = PmIdle /\ fm = FmIdle
    /\ tool = ToolIdle
    /\ tok = TokIdle
    /\ rl = RlIdle
    /\ api = ApiIdle
    /\ sm = SmIdle

NextSanitize == SanApply

SpecSanitize == InitSanitize /\ [][NextSanitize]_vars

InitImages ==
    /\ san = SanIdle /\ img = ImgIdle /\ vc = VcIdle /\ pm = PmIdle
    /\ fm = FmIdle
    /\ tool = ToolIdle
    /\ tok = TokIdle
    /\ rl = RlIdle
    /\ api = ApiIdle
    /\ sm = SmIdle

NextImages ==
    \/ ImgCall
    \/ \E i \in DOMAIN img.tpc : ImgResolve(i)
    \/ \E i \in DOMAIN img.tpc : ImgVerify(i)
    \/ \E i \in DOMAIN img.tpc : ImgUpload(i)
    \/ ImgGather
    \/ ImgRewrite
    \/ ImgReturn

SpecImages == InitImages /\ [][NextImages]_vars

InitValidate ==
    /\ san = SanIdle /\ img = ImgIdle /\ vc = VcIdle /\ pm = PmIdle
    /\ fm = FmIdle
    /\ tool = ToolIdle
    /\ tok = TokIdle
    /\ rl = RlIdle
    /\ api = ApiIdle
    /\ sm = SmIdle

NextValidate == VcCall \/ VcProbe \/ VcReturn

SpecValidate == InitValidate /\ [][NextValidate]_vars

InitMarkdown ==
    /\ san = SanIdle /\ img = ImgIdle /\ vc = VcIdle /\ pm = PmIdle
    /\ fm = FmIdle
    /\ tool = ToolIdle
    /\ tok = TokIdle
    /\ rl = RlIdle
    /\ api = ApiIdle
    /\ sm = SmIdle

NextMarkdown == PmCall \/ PmStep

SpecMarkdown == InitMarkdown /\ [][NextMarkdown]_vars

InitFrontmatter ==
    /\ san = SanIdle /\ img = ImgIdle /\ vc = VcIdle /\ pm = PmIdle
    /\ fm = FmIdle
    /\ tool = ToolIdle
    /\ tok = TokIdle
    /\ rl = RlIdle
    /\ api = ApiIdle
    /\ sm = SmIdle

NextFrontmatter ==
    \/ FmParse
    \/ FmValidateCall
    \/ FmValidateParsed
    \/ FmLanguage
    \/ FmTitle
    \/ FmSubtitle
    \/ FmTags
    \/ FmReturn

SpecFrontmatter == InitFrontmatter /\ [][NextFrontmatter]_vars

InitTools ==
    /\ san = SanIdle /\ img = ImgIdle /\ vc = VcIdle /\ pm = PmIdle
    /\ fm = FmIdle
    /\ tool = ToolIdle
    /\ tok = TokIdle
    /\ rl = RlIdle
    /\ api = ApiIdle
    /\ sm = SmIdle

NextTools == ToolCall \/ ToolPrologue \/ ToolTry \/ ToolExcept

SpecTools == InitTools /\ [][NextTools]_vars

InitTokens ==
    /\ san = SanIdle /\ img = ImgIdle /\ vc = VcIdle /\ pm = PmIdle
    /\ fm = FmIdle /\ tool = ToolIdle
    /\ tok = TokIdle
    /\ rl = RlIdle
    /\ api = ApiIdle
    /\ sm = SmIdle

NextTokens ==
    \/ \E t \in JwtTokens : TokGenerate(t)
    \/ \E t \in JwtTokens : TokExpire(t)
    \/ \E t \in TokenStrings : TokVerify(t)
    \/ \E t \in TokenStrings : TokRevoke(t)

SpecTokens == InitTokens /\ [][NextTokens]_vars

InitRateLimit ==
    /\ san = SanIdle /\ img = ImgIdle /\ vc = VcIdle /\ pm = PmIdle
    /\ fm = FmIdle /\ tool = ToolIdle /\ tok = TokIdle
    /\ \E redis \in BOOLEAN, limit \in Limits, window \in Windows :
          rl = [RlIdle EXCEPT !.redis = redis, !.limit = limit,
                   !.window = window]
    /\ api = ApiIdle
    /\ sm = SmIdle

NextRateLimit ==
    \/ \E p \in Callers : RlCall(p)
    \/ \E p \in Callers : RlClean(p)
    \/ \E p \in Callers : RlCount(p)
    \/ \E p \in Callers : RlAdd(p)
    \/ \E p \in Callers : RlExpire(p)
    \/ RlTick

SpecRateLimit == InitRateLimit /\ [][NextRateLimit]_vars

InitApi ==
    /\ san = SanIdle /\ img = ImgIdle /\ vc = VcIdle /\ pm = PmIdle
    /\ fm = FmIdle /\ tool = ToolIdle /\ tok = TokIdle /\ rl = RlIdle
    /\ api = ApiIdle
    /\ sm = SmIdle

NextApi ==
    \/ \E retries \in 1..MaxRetriesArg : ApiCall(retries)
    \/ \E fate \in PostFates : ApiPost(fate)
    \/ ApiSleep

SpecApi == InitApi /\ [][NextApi]_vars

\* requests.post returns or raises and time.sleep ends: a call in progress
\* keeps taking its next step.
SpecApiFair == SpecApi /\ WF_vars(\E fate \in PostFates : ApiPost(fate))
                       /\ WF_vars(ApiSleep)

InitSocial ==
    /\ san = SanIdle /\ img = ImgIdle /\ vc = VcIdle /\ pm = PmIdle
    /\ fm = FmIdle /\ tool = ToolIdle /\ tok = TokIdle /\ rl = RlIdle
    /\ api = ApiIdle
    /\ sm = SmIdle

NextSocial ==
    \E summary \in SmContents, title \in SmContents, tags \in SmTagLists,
       medium_link \in SmLinks, substack_link \in SmLinks,
       max_length \in SmMaxLengths :
        SmCall(summary, title, tags, medium_link, substack_link, max_length)

SpecSocial == InitSocial /\ [][NextSocial]_vars

\* ------------------------------------------------- process_images: claims

ImgN == Len(img.matches)

\* The references whose fate is a failure of some step.
ImgFailed == { i \in 1..ImgN : img.fate[i].fails # "none" }

\* What the i-th reference's span must read in the end, from the body and
\* the reference's own fate alone: the original text if a step failed, else
\* the image syntax with the alt text kept and the hosted URL.
ExpectedSpan(i) ==
    LET m == img.matches[i] IN
    IF i \in ImgFailed
    THEN SubSeq(img.content, m.start + 1, m.end)
    ELSE <<"!", "[">> \o m.alt \o <<"]", "(">> \o HostedUrl(i) \o <<")">>

RECURSIVE DocOrderBody(_, _)
\* The body put together front to back: the text before reference i that no
\* earlier reference covers, then what reference i must read, and so on;
\* pos is the 0-based offset in the original body reached so far.
DocOrderBody(i, pos) ==
    IF i > ImgN THEN From(img.content, pos + 1)
    ELSE SubSeq(img.content, pos + 1, img.matches[i].start)
             \o ExpectedSpan(i) \o DocOrderBody(i + 1, img.matches[i].end)

ImgRan == img.state = "done" /\ ImgN > 0

\* C1: the body process_images returns depends only on the input body and
\* the per-reference outcomes, never on the order in which the tasks
\* completed: it is always the front-to-back assembly of the outcomes.
C1_BodyIndependentOfCompletionOrder ==
    ImgRan => img.result = DocOrderBody(1, 0)

\* C1 witness: a call with two or more references that completed in the
\* reverse of document order, one of them relocated and one of them not.
C1_Witness ==
    /\ ImgRan /\ ImgN >= 2
    /\ \A i \in 1..ImgN : img.completed[i] = ImgN + 1 - i
    /\ ImgFailed # {} /\ ImgFailed # 1..ImgN

\* C2: a failing step of one reference never raises out of process_images,
\* resolves to that reference's original text, and leaves every sibling
\* task to run to its own outcome.
C2_FailureStaysInItsTask ==
    /\ img.state # "raised"
    /\ \A i \in 1..ImgN : img.tpc[i] # "raised"
    /\ \A i \in 1..ImgN : img.tpc[i] = "done" => img.ret[i] = ExpectedSpan(i)
    /\ ImgRan => \A i \in 1..ImgN : img.tpc[i] = "done"

\* C2 witness: a finished call in which a task failed on an exception
\* before a sibling completed, and the sibling still produced its URL.
C2_Witness ==
    /\ ImgRan
    /\ \E i, j \in 1..ImgN :
         /\ img.fate[i].exc # "none" /\ img.fate[j].fails = "none"
         /\ img.completed[1] = i
         /\ img.ret[j] = ExpectedSpan(j) /\ img.ret[i] = ExpectedSpan(i)

\* The text of the i-th image-syntax occurrence of the returned body.
ResultSpan(i) == group0(img.result, finditer(img.result, 1)[i])

\* C3: with N references of which K fail, the returned body still has N
\* image-syntax occurrences; the occurrences of the K failed references are
\* their original text and the other N - K carry the hosted URL with the
\* alt text kept.
C3_RewrittenAndKeptSpans ==
    ImgRan =>
        /\ Len(finditer(img.result, 1)) = ImgN
        /\ \A i \in 1..ImgN : ResultSpan(i) = ExpectedSpan(i)
        /\ Cardinality({ i \in 1..ImgN :
                           ResultSpan(i) = group0(img.content, img.matches[i]) })
               = Cardinality(ImgFailed)
        /\ Cardinality({ i \in 1..ImgN :
                           ResultSpan(i) # group0(img.content, img.matches[i]) })
               = ImgN - Cardinality(ImgFailed)

\* C3 witness: a finished call with at least one failed and one relocated
\* reference, the relocated one carrying a non-empty alt text.
C3_Witness ==
    /\ ImgRan
    /\ ImgFailed # {}
    /\ \E i \in 1..ImgN : i \notin ImgFailed /\ img.matches[i].alt # <<>>

\* C4: the rewrite works on a complete outcome list: from the moment the
\* rewrite loop is entered every task has completed, and the list holds one
\* outcome per reference, the i-th being the i-th reference's own.
C4_RewriteAfterAllTasks ==
    (img.state \in {"rewrite", "done"} /\ ImgN > 0) =>
        /\ \A i \in 1..ImgN : img.tpc[i] = "done"
        /\ Len(img.processed_images) = ImgN
        /\ \A i \in 1..ImgN : img.processed_images[i] = ExpectedSpan(i)

\* C4 witness: the rewrite loop is about to start, the first task to
\* complete was a failed one and it was not the first reference.
C4_Witness ==
    /\ img.state = "rewrite" /\ img.k = 0 /\ ImgN >= 2
    /\ img.completed[1] \in ImgFailed
    /\ img.completed[1] # 1

\* C13: process_images returns the body unchanged and issues no image fetch
\* and no upload whenever upload_images is false, or no hosting destination
\* is configured, or the body holds no image reference.
C13_NothingToUploadLeavesBodyAlone ==
    (/\ img.state # "idle"
     /\ \/ ~img.upload_images
        \/ ~img.image_upload_url
        \/ \A p \in 1..Len(img.content) : MatchImageAt(img.content, p) = NoMatch)
    => /\ img.state = "done"
       /\ img.result = img.content
       /\ img.io = {}

\* A call with the flag off on a body that holds an image reference, with a
\* hosting destination configured.
C13_Witness ==
    /\ img.state = "done"
    /\ ~img.upload_images
    /\ img.image_upload_url
    /\ \E p \in 1..Len(img.content) : MatchImageAt(img.content, p) # NoMatch

RECURSIVE Interleaved(_, _)
\* The text outside the spans, in its order, with the i-th processed result
\* where the i-th span was; pos is the 0-based offset reached in the
\* original body.
Interleaved(i, pos) ==
    IF i > ImgN THEN From(img.content, pos + 1)
    ELSE SubSeq(img.content, pos + 1, img.matches[i].start)
             \o img.processed_images[i]
             \o Interleaved(i + 1, img.matches[i].end)

\* C27: at every step of the rewrite loop the recorded span of each
\* reference not yet replaced still holds that reference's original text in
\* the current body, whatever the lengths of the replacements made so far;
\* in the final body the text outside the spans is unchanged and in order.
C27_PendingSpansStayValid ==
    /\ img.state = "rewrite" =>
          \A j \in 1..(ImgN - img.k) :
             SubSeq(img.body, img.matches[j].start + 1, img.matches[j].end)
                 = SubSeq(img.content, img.matches[j].start + 1,
                          img.matches[j].end)
    /\ ImgRan => img.result = Interleaved(1, 0)

\* The last reference has been replaced by a text of another length and
\* the first one is still to be replaced.
C27_Witness ==
    /\ img.state = "rewrite" /\ ImgN = 2 /\ img.k = 1
    /\ Len(img.processed_images[2])
           # img.matches[2].end - img.matches[2].start

\* C28: within one image task an upload is issued only after the bytes
\* were obtained and verified, never for bytes that could not be obtained
\* or failed verification, and a replacement is returned only after an
\* upload that succeeded and answered a URL.
C28_UploadOnlyAfterVerifiedBytes ==
    \A i \in 1..ImgN :
        LET fetched == [op |-> "fetch", ref |-> i] \in img.io
            uploaded == [op |-> "upload", ref |-> i] \in img.io IN
        /\ img.tpc[i] = "resolve" => ~fetched /\ ~uploaded
        /\ img.tpc[i] = "verify" => fetched /\ ~uploaded
        /\ img.tpc[i] = "upload" => fetched /\ ~uploaded
        /\ uploaded =>
              fetched /\ img.fate[i].fails \notin {"resolve", "verify"}
        /\ (img.tpc[i] = "done"
               /\ img.ret[i] # group0(img.content, img.matches[i]))
             => uploaded /\ img.fate[i].fails = "none"

\* One task ended at a failed verification with its bytes fetched and not
\* uploaded, while a sibling uploaded and returned its replacement.
C28_Witness ==
    \E i, j \in 1..ImgN :
        /\ img.tpc[i] = "done" /\ img.fate[i].fails = "verify"
        /\ [op |-> "fetch", ref |-> i] \in img.io
        /\ [op |-> "upload", ref |-> i] \notin img.io
        /\ img.tpc[j] = "done" /\ [op |-> "upload", ref |-> j] \in img.io
        /\ img.ret[j] # group0(img.content, img.matches[j])

\* ------------------------------------------------ sanitize_content: claims

\* C10: sanitize_content is idempotent: sanitizing a sanitized text changes
\* nothing.
C10_SanitizeIdempotent ==
    san.n = 2 => san.y = san.prev

\* A block of the kind the sanitizer removes: an opening marker with its
\* closing marker somewhere after it, in any letter case.
HasBlock(s, open, close) ==
    \E i \in 1..Len(s) : AtCI(s, open, i) /\ FindCI(s, close, i + Len(open)) # 0

\* C11: the text sanitize_content returns contains no script block and no
\* iframe block.
C11_NoBlockAfterSanitize ==
    san.n = 1 =>
        /\ ~HasBlock(san.y, SCRIPT_OPEN, SCRIPT_CLOSE)
        /\ ~HasBlock(san.y, IFRAME_OPEN, IFRAME_CLOSE)

\* ------------------------------------------------ validate_content: claims

VcFinished == vc.state \in {"returned", "raised"}

\* The positions of the url list whose probe was issued and failed.
VcFailedProbes ==
    { k \in 1..Len(vc.probed) : ProbeRaises(vc.urls[vc.probed[k]]) # "none" }

VcProbeCount(k) == Cardinality({ j \in 1..Len(vc.probed) : vc.probed[j] = k })

PmFinished == pm.state \in {"returned", "raised"}

\* The pipeline state a finished run ended in: Ready if it returned, else
\* the failure state of the stage that raised provided the file has that
\* state's trigger (a missing path or wrong extension, undecodable or empty
\* text, a malformed metadata block, a field out of bounds), else the
\* exception itself.
PmOutcome ==
    LET stage == Stages[pm.stage]
        f == pm.file IN
    IF pm.state = "returned" THEN "Ready"
    ELSE IF stage = "validate_file_path" /\ (~f.exists \/ f.ext # "md")
         THEN "PathError"
    ELSE IF stage = "read_markdown_file" /\ f.text # "ok" THEN "EncodingError"
    ELSE IF stage = "parse_frontmatter" /\ f.fm = "malformed"
         THEN "FrontmatterError"
    ELSE IF stage = "validate_frontmatter" /\ f.fm = "sixTags"
         THEN "ValidationError"
    ELSE pm.exc

\* C5: every run calls the stages in their fixed order, each at most once
\* and none after a failure, and ends in Ready or in one of the four
\* failure states.
C5_StagesInOrderToTerminal ==
    /\ \A k \in 1..Len(pm.calls) :
         \E n \in 1..Len(Stages) :
           /\ pm.calls[k] = Stages[n]
           /\ k > 1 => \E n0 \in 1..(n - 1) : pm.calls[k - 1] = Stages[n0]
    /\ PmFinished =>
         PmOutcome \in {"Ready", "PathError", "EncodingError",
                        "FrontmatterError", "ValidationError"}

\* A file every stage before the content check accepts.
PmAcceptable(f) ==
    f.exists /\ f.ext = "md" /\ f.text = "ok" /\ f.fm \in {"none", "valid"}

\* C6: a run on an acceptable file whose content verdict is negative (the
\* body is too short, or its link fails its probe inside aiohttp) still
\* ends in Ready.
C6_NegativeVerdictStillReady ==
    (PmFinished /\ PmAcceptable(pm.file)
       /\ (pm.file.body = "short" \/ pm.file.link = "dead"))
        => pm.state = "returned"

\* C9: a run whose metadata has more tags than the maximum ends with the
\* validation failure of validate_frontmatter, and no fetch, upload or
\* probe has been issued in it.
C9_ValidationErrorBeforeIO ==
    (PmFinished /\ pm.file.exists /\ pm.file.ext = "md" /\ pm.file.text = "ok"
       /\ pm.file.fm = "sixTags")
        => /\ pm.state = "raised"
           /\ Stages[pm.stage] = "validate_frontmatter"
           /\ pm.exc = "ValueError"
           /\ pm.io = {}

\* C21: a run on a missing path or on a path without the .md extension is
\* rejected at the path check, and a run on an empty or undecodable file at
\* the read, each with an error raised to the caller before
\* parse_frontmatter or any later stage is called.
C21_BadFileRejectedBeforeParsing ==
    PmFinished =>
        LET f == pm.file
            badPath == ~f.exists \/ f.ext # "md" IN
        /\ badPath =>
             /\ pm.state = "raised" /\ PmOutcome = "PathError"
             /\ pm.calls = <<"validate_file_path">>
        /\ (~badPath /\ f.text # "ok") =>
             /\ pm.state = "raised" /\ PmOutcome = "EncodingError"
             /\ pm.calls = <<"validate_file_path", "read_markdown_file">>

\* A file on which every stage succeeds.
PmAllSucceed(f) ==
    PmAcceptable(f) /\ f.body = "good" /\ f.link \in {"", "ok"}

\* The calls of a successful run as claimed: every stage once, each on the
\* output of the one before, process_images with the caller's flag.
ExpectedCalls(upload_images) ==
    << [stage |-> "validate_file_path", arg |-> "file_path", upload_images |-> FALSE],
       [stage |-> "read_markdown_file", arg |-> "file_path", upload_images |-> FALSE],
       [stage |-> "parse_frontmatter", arg |-> "text", upload_images |-> FALSE],
       [stage |-> "validate_frontmatter", arg |-> "parsed", upload_images |-> FALSE],
       [stage |-> "sanitize_content", arg |-> "body", upload_images |-> FALSE],
       [stage |-> "process_images", arg |-> "sanitized",
        upload_images |-> upload_images],
       [stage |-> "validate_content", arg |-> "processed", upload_images |-> FALSE] >>

\* C22: a run on a file every stage accepts succeeds with each stage called
\* exactly once on the previous stage's output, process_images called on the
\* sanitized body with the caller's upload_images flag whichever its value,
\* and returns the validated frontmatter with the body process_images
\* returned.
C22_EachStageOnceOnPreviousOutput ==
    (PmFinished /\ PmAllSucceed(pm.file))
    => /\ pm.state = "returned"
       /\ pm.args = ExpectedCalls(pm.upload_images)
       /\ pm.result = <<"validated", "processed">>

\* ----------------------------------------------------- frontmatter: claims

DASHES == <<"-", "-", "-">>

\* The text starts with a metadata block: its first line is three dashes, a
\* later line that a newline ends is three dashes, and at least one line
\* (possibly empty) lies between them.
StartsWithBlock(text) ==
    LET ls == Split(text) IN
    /\ Len(ls) >= 4
    /\ ls[1] = DASHES
    /\ \E k \in 3..(Len(ls) - 1) : ls[k] = DASHES

\* The lines between the opening line and the first closing line.
BlockOf(text) ==
    LET ls == Split(text)
        k == CHOOSE i \in 3..(Len(ls) - 1) :
               /\ ls[i] = DASHES
               /\ \A j \in 3..(i - 1) : ls[j] # DASHES IN
    Join(SubSeq(ls, 2, k - 1))

\* parse_frontmatter was called on fm.content.
FmParsedText == fm.op \in {"parse", "pipeline"}

\* validate_frontmatter was called on a mapping and has returned or raised.
FmFinishedDict ==
    /\ fm.op \in {"validate", "pipeline"}
    /\ fm.state \in {"returned", "raised"}
    /\ fm.before.kind = "dict"

FmInput == fm.before.map
FmResult == fm.heap[fm.result]

\* C14: a metadata block at the start of the document whose content does
\* not decode as a mapping (syntax error, scalar, list, nothing) ends the
\* run with the frontmatter error; no partial or non-mapping metadata is
\* returned.
C14_UndecodableBlockIsFrontmatterError ==
    (/\ FmParsedText
     /\ StartsWithBlock(fm.content)
     /\ safe_load(BlockOf(fm.content)).kind # "dict")
    => /\ fm.state = "raised"
       /\ fm.exc = "ContentValidationError"

\* C15: for every text that does not start with a metadata block,
\* parse_frontmatter returns the empty mapping and the text unchanged, and
\* raises nothing.
C15_NoBlockGivesEmptyMappingAndSameText ==
    (FmParsedText /\ ~StartsWithBlock(fm.content))
    => /\ fm.state # "raised"
       /\ fm.exc = "none"
       /\ fm.parsed = PyDict(EmptyMap)
       /\ fm.body = fm.content

\* A text with a whole metadata block further down, not at its start.
C15_Witness ==
    /\ fm.state = "parsed"
    /\ ~StartsWithBlock(fm.content)
    /\ \E i \in 2..Len(fm.content) :
         fm.content[i - 1] = NL /\ MatchBlockAt(fm.content, i).matched

\* C16: every mapping validate_frontmatter returns has a language key whose
\* value is in the configured supported-language set, for every input
\* mapping and every default-language / supported-set configuration.
C16_ReturnedLanguageIsSupported ==
    (fm.state = "returned")
    => /\ LANGUAGE \in DOMAIN FmResult.map
       /\ FmResult.map[LANGUAGE] \in fm.settings.supported_languages

\* The tag is one or more characters of [A-Za-z0-9-] and nothing else.
TagAllowed(tag) == tag # <<>> /\ \A i \in DOMAIN tag : tag[i] \in TagChars

TitleFine(m) ==
    TITLE \in DOMAIN m => Len(m[TITLE]) >= 1 /\ Len(m[TITLE]) <= max_title_length

SubtitleFine(m) ==
    SUBTITLE \in DOMAIN m => Len(m[SUBTITLE]) <= max_subtitle_length

\* C17: a tag list of at most the maximum length whose tags all match
\* ^[A-Za-z0-9-]+$ validates and comes back unchanged; a list with one tag
\* more than the maximum, and a list with a tag holding a disallowed
\* character, raise the validation error.
C17_TagListAcceptedOrRejected ==
    (FmFinishedDict /\ TAGS \in DOMAIN FmInput)
    => LET tags == FmInput[TAGS] IN
       /\ (/\ Len(tags) <= max_tags
           /\ \A k \in DOMAIN tags : TagAllowed(tags[k])
           /\ TitleFine(FmInput) /\ SubtitleFine(FmInput))
          => /\ fm.state = "returned"
             /\ FmResult.map[TAGS] = tags
       /\ Len(tags) = max_tags + 1
          => fm.state = "raised" /\ fm.exc = "ValueError"
       /\ (\E k \in DOMAIN tags : ~TagAllowed(tags[k]))
          => fm.state = "raised" /\ fm.exc = "ValueError"

\* C18: validate_frontmatter returns only if the title, when the key
\* exists, is non-empty and at most the maximum title length and the
\* subtitle, when present, is at most the maximum subtitle length; a title
\* or subtitle exactly at the maximum is not rejected, one character longer
\* raises the validation error.
C18_TitleAndSubtitleBounds ==
    FmFinishedDict
    => /\ fm.state = "returned" => TitleFine(FmInput) /\ SubtitleFine(FmInput)
       /\ ~(TitleFine(FmInput) /\ SubtitleFine(FmInput))
          => fm.state = "raised" /\ fm.exc = "ValueError"
       /\ fm.msg \in {"Title cannot be empty", "Title exceeds maximum length"}
          => ~TitleFine(FmInput)
       /\ fm.msg = "Subtitle exceeds maximum length" => ~SubtitleFine(FmInput)

\* A title and a subtitle both exactly at their maximum, accepted.
C18_Witness ==
    /\ fm.state = "returned"
    /\ TITLE \in DOMAIN FmInput /\ Len(FmInput[TITLE]) = max_title_length
    /\ SUBTITLE \in DOMAIN FmInput
    /\ Len(FmInput[SUBTITLE]) = max_subtitle_length

\* The rules mapping m violates, each with its place in the fixed order:
\* title 1, subtitle 2, tag count 3, the pattern on the k-th tag 3 + k.
Violations(m) ==
    (IF TitleFine(m) THEN {} ELSE {1})
    \cup (IF SubtitleFine(m) THEN {} ELSE {2})
    \cup (IF TAGS \in DOMAIN m /\ Len(m[TAGS]) > max_tags THEN {3} ELSE {})
    \cup (IF TAGS \in DOMAIN m
          THEN { 3 + k : k \in { j \in DOMAIN m[TAGS] : ~TagAllowed(m[TAGS][j]) } }
          ELSE {})

FirstViolation(m) == CHOOSE v \in Violations(m) : \A w \in Violations(m) : v <= w

\* The place in the fixed order of the rule the raised error reports (0: no
\* rule), from the last check made and how far the tag loop got.
Reported ==
    IF fm.state # "raised" \/ fm.exc # "ValueError" THEN 0
    ELSE IF fm.msg \in {"Title cannot be empty", "Title exceeds maximum length"}
         THEN 1
    ELSE IF fm.msg = "Subtitle exceeds maximum length" THEN 2
    ELSE IF fm.msg = "Maximum tags allowed" THEN 3
    ELSE 3 + fm.matched

\* C19: when several rules are violated, validate_frontmatter raises at the
\* first violated rule in the order title, subtitle, tag count, tag pattern
\* (tags in list order), reports only that violation and evaluates no later
\* rule.
C19_FirstViolationInFixedOrder ==
    (FmFinishedDict /\ Cardinality(Violations(FmInput)) >= 2)
    => LET v == FirstViolation(FmInput) IN
       /\ Reported = v
       /\ fm.rules[Len(fm.rules)] =
             (IF v = 1 THEN "title" ELSE IF v = 2 THEN "subtitle" ELSE "tags")
       /\ v = 3 => fm.matched = 0
       /\ v > 3 => fm.tag = FmInput[TAGS][v - 3]

\* C20: validate_frontmatter never mutates its input mapping, whether it
\* returns or raises, and the mapping it returns is a distinct object.
C20_InputMappingUntouched ==
    (fm.op \in {"validate", "pipeline"} /\ fm.frontmatter # 0)
    => /\ fm.heap[fm.frontmatter] = fm.before
       /\ fm.state = "returned" => fm.result # fm.frontmatter

\* A returned call whose argument had no language key: the key was added to
\* the copy.
C20_Witness ==
    /\ fm.state = "returned" /\ fm.op = "validate"
    /\ LANGUAGE \notin DOMAIN FmInput
    /\ TITLE \in DOMAIN FmInput
    /\ LANGUAGE \in DOMAIN FmResult.map

\* ---------------------------------------------------- tool handlers: claims

\* C23: every tool invocation ends with the handler returning, and when its
\* try block raised, what it returns is the prefixed message of the clause
\* that caught the exception; no exception leaves a handler.
C23_NoExceptionEscapesHandler ==
    /\ tool.state # "escaped"
    /\ (tool.state = "returned" /\ tool.exc # "none") =>
          \E i \in DOMAIN Clauses(tool.name) :
             tool.message = Clauses(tool.name)[i].prefix

\* ------------------------------------------------ SecurityManager: claims

\* C24: once revoke_token(t) was called, every verify_token(t) on the same
\* SecurityManager fails with 401 'Token has been revoked', whatever was
\* generated, verified, revoked or has expired in between; the blacklist
\* holds exactly the tokens ever revoked.
C24_RevocationIsPermanent ==
    /\ tok.token_blacklist = tok.revoked
    /\ (tok.last.op = "verify" /\ tok.last.token \in tok.revoked)
         => tok.last.result = "401 Token has been revoked"
    /\ (tok.last.op = "verify" /\ tok.last.token \notin tok.revoked)
         => tok.last.result # "401 Token has been revoked"

\* A revoked token that has also expired, verified after another token was
\* revoked too.
C24_Witness ==
    /\ tok.last.op = "verify"
    /\ tok.last.token \in tok.revoked \cap tok.expired
    /\ tok.revoked # {tok.last.token}

\* C25: a finished rate_limit call returned False with no Redis command
\* issued when no Redis is configured; with Redis it issued
\* zremrangebyscore(key, 0, current - window) first and zcard next, and then
\* either returned True with nothing more issued, the count being at least
\* the limit, or issued zadd of str(current) and expire(key, window), in
\* that order, and returned False.
C25_RateLimitStorageProtocol ==
    \A p \in Callers :
        LET c == rl.caller[p] IN
        c.pc = "done" =>
            IF ~rl.redis
            THEN c.result = "False" /\ c.ops = <<>> /\ rl.zset = {}
            ELSE /\ Len(c.ops) >= 2
                 /\ c.ops[1] = [op |-> "zremrangebyscore", min |-> 0,
                                max |-> c.current - rl.window]
                 /\ c.ops[2] = [op |-> "zcard"]
                 /\ IF c.count >= rl.limit
                    THEN c.result = "True" /\ Len(c.ops) = 2
                    ELSE /\ c.result = "False"
                         /\ Len(c.ops) = 4
                         /\ c.ops[3] = [op |-> "zadd",
                                        member |-> ToString(c.current),
                                        score |-> c.current]
                         /\ c.ops[4] = [op |-> "expire",
                                        seconds |-> rl.window]

\* With Redis, a call found the count at the limit exactly and returned
\* True after an earlier entry had been removed as too old.
C25_Witness ==
    /\ rl.redis
    /\ \E p \in Callers :
          /\ rl.caller[p].pc = "done" /\ rl.caller[p].result = "True"
          /\ rl.caller[p].count = rl.limit
          /\ rl.caller[p].current >= rl.window + 1

\* The calls that began and returned False within one of the seconds
\* s .. s + n - 1.
RECURSIVE AdmittedIn(_, _)
AdmittedIn(s, n) ==
    IF n = 0 \/ s > MaxClock THEN 0
    ELSE rl.admitted[s] + AdmittedIn(s + 1, n - 1)

\* C29: with Redis configured, in no span of 'window' seconds were more
\* than 'limit' calls on the key admitted, whatever the interleaving of the
\* callers and whatever the seconds at which they called.  Only calls that
\* ran from start to return within one second are counted, so that the
\* second a call belongs to is not in question.
C29_AdmittedPerWindowWithinLimit ==
    rl.redis =>
        \A s \in 0..MaxClock : AdmittedIn(s, rl.window) <= rl.limit

\* ----------------------------------------------- make_api_request: claims

\* A response that is neither rate-limited nor an HTTP or transport error.
Usable(fate) == ~fate.raises /\ ~(fate.status >= 400)

ApiSafe ==
    /\ Len(api.posts) <= api.retries
    /\ api.pc = "sleep" =>
          /\ ~Usable(api.posts[Len(api.posts)])
          /\ Len(api.posts) < api.retries
    /\ api.pc = "returned" =>
          /\ api.posts # <<>>
          /\ api.result = <<api.posts[Len(api.posts)]>>
          /\ \A i \in 1..Len(api.posts) :
                Usable(api.posts[i]) <=> i = Len(api.posts)
    /\ api.pc = "raised" =>
          /\ api.exc = "PublishingError"
          /\ Len(api.posts) = api.retries
          /\ \A i \in 1..Len(api.posts) : ~Usable(api.posts[i])

\* C26: for retries >= 1 make_api_request posts at most 'retries' times
\* and ends; it returns the response of the first attempt that is neither
\* a 429 nor an HTTP or transport error, sleeps and retries after a 429 or
\* a failure while attempts remain, raises PublishingError when the last
\* attempt is a 429 or fails, and never returns a 429 or error response.
C26_BoundedRetriesAndTermination ==
    /\ []ApiSafe
    /\ (api.pc \in {"post", "sleep"}) ~> (api.pc \in {"returned", "raised"})

\* A call with the default retries that was rate-limited, then failed in
\* transport, and returned the third attempt's response.
C26_Witness ==
    /\ api.pc = "returned" /\ api.retries = MAX_RETRIES
    /\ Len(api.posts) = MAX_RETRIES
    /\ api.posts[1].status = 429 /\ api.posts[2].raises

\* ---------------------------------- generate_social_media_message: claims

\* C30: whenever max_length is given, the returned message is at most
\* max_length characters long and still ends with both link lines in full.
C30_MessageWithinMaxLength ==
    (sm.state = "returned" /\ sm.max_length > 0) =>
        LET lines == link_lines(sm.medium_link, sm.substack_link) IN
        /\ Len(sm.message) <= sm.max_length
        /\ Len(sm.message) >= Len(lines)
        /\ From(sm.message, Len(sm.message) - Len(lines) + 1) = lines

====
